---- MODULE Spec2Model ----
(***************************************************************************)
(* A model of lox_byte: the scanner, the single-pass Pratt compiler, the   *)
(* bytecode chunk and the stack VM, with the driver (repl / run_file) that *)
(* calls VM::interpret.                                                    *)
(*                                                                         *)
(* Source text and lexemes are TLA+ strings; a character is a string of    *)
(* length one.  The compiler is a family of recursive operators over a     *)
(* record cc that holds the fields of Compiler, Parser, Scanner and the    *)
(* parts of the VM the compiler writes (the intern table, the heap).  The  *)
(* VM executes one instruction per step of the specification.              *)
(***************************************************************************)
EXTENDS Integers, Sequences, FiniteSets, TLC

VARIABLES
    stack,            \* VM.stack: Seq(Value)
    heap,             \* the HeapElement<String> allocations, by address: Seq(STRING)
    objs,             \* VM.objs: the roots pushed by create_string (addresses)
    strings,          \* VM.strings: the intern set (addresses, keyed by content)
    globals,          \* VM.globals: content of the InternString key -> Value
    chunks,           \* VM.chunks: the installed Chunk
    ip,               \* TracingIp.offset of the running run()
    mode,             \* "idle" | "running" | "panicked" | "exited"
    had_error,        \* Parser.had_error at the end of the last compile
    diag,             \* the diagnostics error_at printed in the last compile
    compile_result,   \* what Compiler::compile returned: "none" | "Ok" | "Err"
    result,           \* what VM::run returned: "none" | "Ok" | "Err"
    interpret_result, \* what VM::interpret returned: "none" | "pending" | "Ok" | "Err"
    out,              \* the values Print wrote to stdout, formatted
    driver,           \* main's mode: "repl" | "file"
    exit_code,        \* process::exit status, -1 while the process lives
    calls,            \* number of interpret calls made so far
    stmts,            \* history: the code spans of the statements of the installed chunk
    base,             \* history: the length of the stack when run() started
    resolved,         \* history: the resolve_local calls of the last compile
    sources,          \* history: the texts passed to interpret, in order
    probe             \* one call of a function of the compiler or the scanner,
                      \* made on its own: [fn, arg, done, ret]

vars == <<stack, heap, objs, strings, globals, chunks, ip, mode, had_error, diag,
          compile_result, result, interpret_result, out, driver, exit_code,
          calls, stmts, base, resolved, sources, probe>>

(***************************************************************************)
(* Bounds of the model.                                                    *)
(***************************************************************************)
MaxCalls == 2
MaxStack == 8

(***************************************************************************)
(* opcode.rs: the discriminants of the #[repr(u8)] enum OpCode.            *)
(***************************************************************************)
Op_Constant == 0
Op_Addition == 1
Op_Subtract == 2
Op_Multiply == 3
Op_Divide == 4
Op_Not == 5
Op_Negate == 6
Op_Print == 7
Op_Jump == 8
Op_JumpIfFalse == 9
Op_Loop == 10
Op_True == 11
Op_Pop == 12
Op_GetLocal == 13
Op_SetLocal == 14
Op_GetGlobal == 15
Op_DefineGlobal == 16
Op_SetGlobal == 17
Op_Equal == 18
Op_False == 19
Op_Greater == 20
Op_Less == 21
Op_Nil == 22
Op_Return == 23

U8_MAX == 255
U16_MAX == 65535

(***************************************************************************)
(* Let(v, In) is In with its parameter bound to v: the `let` of the source *)
(* for a value that is used more than once.  As in the source, v is        *)
(* computed before the body runs: the test makes TLC evaluate it here.     *)
(***************************************************************************)
Let(v, In(_)) == IF v = v THEN In(v) ELSE In(v)

(***************************************************************************)
(* Characters.                                                             *)
(***************************************************************************)
NoChar == ""

CharAt(s, i) == SubSeq(s, i, i)

Lower == {"a","b","c","d","e","f","g","h","i","j","k","l","m",
          "n","o","p","q","r","s","t","u","v","w","x","y","z"}
Upper == {"A","B","C","D","E","F","G","H","I","J","K","L","M",
          "N","O","P","Q","R","S","T","U","V","W","X","Y","Z"}
DigitChars == <<"0","1","2","3","4","5","6","7","8","9">>

is_identifier(c) == c \in Lower \cup Upper \cup {"_"}

is_digit(c) == \E k \in 1..10 : DigitChars[k] = c

DigitValue(c) == (CHOOSE k \in 1..10 : DigitChars[k] = c) - 1

(***************************************************************************)
(* token.rs                                                                *)
(***************************************************************************)
Token(ttype, lexeme, line) ==
    [ttype |-> ttype, some |-> TRUE, lexeme |-> lexeme, line |-> line]

EofToken(line) == [ttype |-> "Eof", some |-> FALSE, lexeme |-> "", line |-> line]

NoToken == [ttype |-> "None", some |-> FALSE, lexeme |-> "", line |-> 0]

error_message(ttype) ==
    CASE ttype = "UnexpectedCharacterError" -> "Unexpected character."
      [] ttype = "UnterminatedStringError" -> "Unterminated string."
      [] OTHER -> "None"

(***************************************************************************)
(* scanner.rs.  A scanner is [source, token_start, off, line]; off is the  *)
(* number of characters the chars iterator has yielded.                    *)
(***************************************************************************)
Scanner_new(source) == [source |-> source, token_start |-> 0, off |-> 0, line |-> 1]

Scanner_peek(s) == IF s.off < Len(s.source) THEN CharAt(s.source, s.off + 1) ELSE NoChar

Scanner_advance(s) == IF s.off < Len(s.source) THEN [s EXCEPT !.off = @ + 1] ELSE s

Scanner_current(s) == s.off

content(s) == SubSeq(s.source, s.token_start + 1, Scanner_current(s))

make_token(s, ttype) == Token(ttype, content(s), s.line)

match_char(s, expected) ==
    IF Scanner_peek(s) = expected /\ expected # NoChar
    THEN [s |-> Scanner_advance(s), ok |-> TRUE]
    ELSE [s |-> s, ok |-> FALSE]

match_str(s, expected) ==
    IF s.off >= Len(s.source) THEN [s |-> s, ok |-> FALSE]
    ELSE IF s.off + Len(expected) > Len(s.source) THEN [s |-> s, ok |-> FALSE]
    ELSE IF expected = SubSeq(s.source, s.off + 1, s.off + Len(expected))
         THEN [s |-> [s EXCEPT !.off = @ + Len(expected)], ok |-> TRUE]
         ELSE [s |-> s, ok |-> FALSE]

RECURSIVE skip_comment(_)
skip_comment(s) ==
    IF Scanner_peek(s) = NoChar \/ Scanner_peek(s) = "\n" THEN s
    ELSE skip_comment(Scanner_advance(s))

RECURSIVE skip_whitespace(_)
skip_whitespace(s) ==
    Let(Scanner_peek(s), LAMBDA c :
        IF c \in {" ", "\t", "\r"} THEN skip_whitespace(Scanner_advance(s))
        ELSE IF c = "\n"
             THEN skip_whitespace(Scanner_advance([s EXCEPT !.line = @ + 1]))
        ELSE IF c = "/"
             THEN Let(match_str(s, "//"), LAMBDA m :
                      IF m.ok THEN skip_whitespace(skip_comment(m.s)) ELSE s)
        ELSE s)

check_key(word, kw, pos, ttype) ==
    IF SubSeq(word, pos + 1, Len(word)) = SubSeq(kw, pos + 1, Len(kw))
    THEN ttype ELSE "Identifer"

keyword_type(word, c1, c2) ==
    IF Len(word) = 0 THEN "Identifer"
    ELSE CASE c1 = "a" -> check_key(word, "and", 1, "And")
           [] c1 = "c" -> check_key(word, "class", 1, "Class")
           [] c1 = "e" -> check_key(word, "else", 1, "Else")
           [] c1 = "f" ->
                IF Len(word) < 2 THEN "Identifer"
                ELSE CASE c2 = "a" -> check_key(word, "false", 2, "False")
                       [] c2 = "o" -> check_key(word, "for", 2, "For")
                       [] c2 = "u" -> check_key(word, "fun", 2, "Fun")
                       [] OTHER -> "Identifer"
           [] c1 = "i" -> check_key(word, "if", 1, "If")
           [] c1 = "n" -> check_key(word, "nil", 1, "Nil")
           [] c1 = "o" -> check_key(word, "or", 1, "Or")
           [] c1 = "p" -> check_key(word, "print", 1, "Print")
           [] c1 = "r" -> check_key(word, "return", 1, "Return")
           [] c1 = "s" -> check_key(word, "super", 1, "Super")
           [] c1 = "t" ->
                IF Len(word) < 2 THEN "Identifer"
                ELSE CASE c2 = "h" -> check_key(word, "this", 2, "This")
                       [] c2 = "r" -> check_key(word, "true", 2, "True")
                       [] OTHER -> "Identifer"
           [] c1 = "v" -> check_key(word, "var", 1, "Var")
           [] c1 = "w" -> check_key(word, "while", 1, "While")
           [] OTHER -> "Identifer"

identifier_type(s) ==
    Let(content(s), LAMBDA word : keyword_type(word, CharAt(word, 1), CharAt(word, 2)))

RECURSIVE identifier(_)
identifier(s) ==
    IF is_identifier(Scanner_peek(s)) THEN identifier(Scanner_advance(s))
    ELSE [s |-> s, tok |-> make_token(s, identifier_type(s))]

RECURSIVE string_literal(_)
string_literal(s) ==
    Let(Scanner_peek(s), LAMBDA c :
        IF c = "\""
        THEN Let(Scanner_advance(s), LAMBDA s1 :
                 [s |-> s1, tok |-> make_token(s1, "String")])
        ELSE IF c = "\n"
             THEN string_literal([Scanner_advance(s) EXCEPT !.line = @ + 1])
        ELSE [s |-> s, tok |-> make_token(s, "UnterminatedStringError")])

RECURSIVE consume_number(_)
consume_number(s) ==
    IF is_digit(Scanner_peek(s)) THEN consume_number(Scanner_advance(s)) ELSE s

\* mutant of consume_fraction: a '.' after the digits is always consumed
consume_fraction_greedy(s1) ==
    IF Scanner_peek(s1) = "." THEN consume_number(Scanner_advance(s1)) ELSE s1

consume_fraction(s1) ==
    IF Scanner_peek(s1) = "."
       /\ s1.off + 1 < Len(s1.source)
       /\ is_digit(CharAt(s1.source, s1.off + 2))
    THEN consume_number(Scanner_advance(s1))
    ELSE s1

number_literal(s) ==
    Let(consume_fraction(consume_number(s)), LAMBDA s2 :
        [s |-> s2, tok |-> make_token(s2, "Number")])

SingleCharToken(c) ==
    CASE c = "(" -> "LeftParen"
      [] c = ")" -> "RightParen"
      [] c = "{" -> "LeftBrace"
      [] c = "}" -> "RightBrace"
      [] c = ";" -> "SemiColon"
      [] c = "," -> "Comma"
      [] c = "." -> "Dot"
      [] c = "+" -> "Plus"
      [] c = "-" -> "Minus"
      [] c = "/" -> "Slash"
      [] c = "*" -> "Star"
      [] OTHER -> "UnexpectedCharacterError"

OneOrTwo(s, two, one) ==
    Let(match_char(s, "="), LAMBDA m :
        [s |-> m.s, tok |-> make_token(m.s, IF m.ok THEN two ELSE one)])

\* the match on the character c that advance() returned, s the scanner after it
scan_char(c, s) ==
    IF is_identifier(c) THEN identifier(s)
    ELSE IF is_digit(c) THEN number_literal(s)
    ELSE IF c = NoChar THEN [s |-> s, tok |-> EofToken(s.line)]
    ELSE CASE c = "!" -> OneOrTwo(s, "BangEqual", "Bang")
           [] c = "=" -> OneOrTwo(s, "EqualEqual", "Equal")
           [] c = "<" -> OneOrTwo(s, "LessEqual", "Less")
           [] c = ">" -> OneOrTwo(s, "GreaterEqual", "Greater")
           [] c = "\"" -> string_literal(s)
           [] OTHER -> [s |-> s, tok |-> make_token(s, SingleCharToken(c))]

set_token_start(sw) == [sw EXCEPT !.token_start = Scanner_current(sw)]

scan_token(s0) ==
    Let(set_token_start(skip_whitespace(s0)), LAMBDA st :
        scan_char(Scanner_peek(st), Scanner_advance(st)))


(***************************************************************************)
(* value.rs: Value.  A Number is an f64, modelled as a normalised rational *)
(* num/den (den > 0), with den = 0 for the IEEE specials: 1/0 is +inf,     *)
(* -1/0 is -inf and 0/0 is NaN.  The sign of zero is not modelled.  A      *)
(* String holds the address of the HeapElement its Weak points to.         *)
(***************************************************************************)
Abs(n) == IF n < 0 THEN -n ELSE n

Sign(n) == IF n < 0 THEN -1 ELSE IF n > 0 THEN 1 ELSE 0

RECURSIVE GCD(_, _)
GCD(a, b) == IF b = 0 THEN a ELSE GCD(b, a % b)

Number(n, d) ==
    IF d = 0
    THEN [t |-> "Number", num |-> Sign(n), den |-> 0, b |-> FALSE, ref |-> 0]
    ELSE [t |-> "Number", num |-> (Sign(d) * n) \div GCD(Abs(n), Abs(d)),
          den |-> (Sign(d) * d) \div GCD(Abs(n), Abs(d)), b |-> FALSE, ref |-> 0]

Bool(b) == [t |-> "Bool", num |-> 0, den |-> 1, b |-> b, ref |-> 0]

Nil == [t |-> "Nil", num |-> 0, den |-> 1, b |-> FALSE, ref |-> 0]

String(ref) == [t |-> "String", num |-> 0, den |-> 1, b |-> FALSE, ref |-> ref]

IsNaN(v) == v.den = 0 /\ v.num = 0

f64_add(x, y) ==
    IF IsNaN(x) \/ IsNaN(y) THEN Number(0, 0)
    ELSE IF x.den = 0 /\ y.den = 0 THEN (IF x.num = y.num THEN x ELSE Number(0, 0))
    ELSE IF x.den = 0 THEN x
    ELSE IF y.den = 0 THEN y
    ELSE Number(x.num * y.den + y.num * x.den, x.den * y.den)

f64_neg(x) == Number(-x.num, x.den)

f64_sub(x, y) == f64_add(x, f64_neg(y))

f64_mul(x, y) ==
    IF IsNaN(x) \/ IsNaN(y) THEN Number(0, 0)
    ELSE IF x.den = 0 \/ y.den = 0 THEN Number(Sign(x.num) * Sign(y.num), 0)
    ELSE Number(x.num * y.num, x.den * y.den)

f64_div(x, y) ==
    IF IsNaN(x) \/ IsNaN(y) THEN Number(0, 0)
    ELSE IF y.den = 0 THEN (IF x.den = 0 THEN Number(0, 0) ELSE Number(0, 1))
    ELSE IF x.den = 0 THEN Number(x.num * (IF y.num < 0 THEN -1 ELSE 1), 0)
    ELSE Number(x.num * y.den, x.den * y.num)

f64_lt(x, y) ==
    IF IsNaN(x) \/ IsNaN(y) THEN FALSE
    ELSE IF x.den = 0 /\ y.den = 0 THEN x.num < y.num
    ELSE IF x.den = 0 THEN x.num < 0
    ELSE IF y.den = 0 THEN y.num > 0
    ELSE x.num * y.den < y.num * x.den

f64_gt(x, y) == f64_lt(y, x)

f64_eq(x, y) == ~IsNaN(x) /\ ~IsNaN(y) /\ x.num = y.num /\ x.den = y.den

is_falsy(v) ==
    CASE v.t = "Bool" -> ~v.b
      [] v.t = "Nil" -> TRUE
      [] OTHER -> FALSE

\* impl PartialEq for Value: strings compare by Weak::ptr_eq
Value_eq(x, y) ==
    CASE x.t = "Number" /\ y.t = "Number" -> f64_eq(x, y)
      [] x.t = "String" /\ y.t = "String" -> x.ref = y.ref
      [] x.t = "Bool" /\ y.t = "Bool" -> x.b = y.b
      [] x.t = "Nil" /\ y.t = "Nil" -> TRUE
      [] OTHER -> FALSE

(***************************************************************************)
(* Conversions between numbers and text: str::parse::<f64> on a Number     *)
(* lexeme, and f64's Display.                                              *)
(***************************************************************************)
RECURSIVE ParseDigits(_, _)
ParseDigits(lex, acc) ==
    IF Len(lex) = 0 THEN acc
    ELSE ParseDigits(Tail(lex), 10 * acc + DigitValue(CharAt(lex, 1)))

RECURSIVE Pow10(_)
Pow10(k) == IF k = 0 THEN 1 ELSE 10 * Pow10(k - 1)

RECURSIVE DotIndex(_, _)
DotIndex(lex, i) ==
    IF i > Len(lex) THEN 0
    ELSE IF CharAt(lex, i) = "." THEN i
    ELSE DotIndex(lex, i + 1)

parse_decimal(whole, frac) ==
    Number(ParseDigits(whole, 0) * Pow10(Len(frac)) + ParseDigits(frac, 0),
           Pow10(Len(frac)))

parse_f64(lex) ==
    Let(DotIndex(lex, 1), LAMBDA dot :
        IF dot = 0 THEN Number(ParseDigits(lex, 0), 1)
        ELSE parse_decimal(SubSeq(lex, 1, dot - 1), SubSeq(lex, dot + 1, Len(lex))))

RECURSIVE NatToStr(_)
NatToStr(n) ==
    IF n < 10 THEN DigitChars[n + 1]
    ELSE NatToStr(n \div 10) \o DigitChars[(n % 10) + 1]

\* the fractional digits of r/den, 0 <= r < den; a non-terminating expansion
\* is cut after k digits
RECURSIVE FracDigits(_, _, _)
FracDigits(r, den, k) ==
    IF r = 0 \/ k = 0 THEN ""
    ELSE DigitChars[((10 * r) \div den) + 1] \o FracDigits((10 * r) % den, den, k - 1)

f64_to_string(v) ==
    IF v.den = 0
    THEN (IF v.num = 0 THEN "NaN" ELSE IF v.num > 0 THEN "inf" ELSE "-inf")
    ELSE Let(FracDigits(Abs(v.num) % v.den, v.den, 16), LAMBDA frac :
             (IF v.num < 0 THEN "-" ELSE "") \o NatToStr(Abs(v.num) \div v.den)
             \o (IF frac = "" THEN "" ELSE "." \o frac))

(***************************************************************************)
(* value.rs: the intern table.  h is the part of the VM create_string      *)
(* touches: [heap, objs, strings].                                         *)
(***************************************************************************)
\* HashSet<InternString>::get(str): the entry whose content equals str
strings_get(h, str) == {a \in h.strings : h.heap[a] = str}

\* mutant of HashSet_insert: the insertion replaces the table by the new entry
HashSet_insert_clears(h, a) == {a}

\* HashSet::insert: no effect when an entry with equal content is present
HashSet_insert(h, a) ==
    IF strings_get(h, h.heap[a]) = {} THEN h.strings \cup {a} ELSE h.strings

\* mutant of create_string: the lookup is skipped, every call allocates
create_string_always_allocates(h, str) ==
    Let([h EXCEPT !.heap = Append(@, str)], LAMBDA h1 :
        [h |-> [h1 EXCEPT !.strings = HashSet_insert(h1, Len(h1.heap)),
                          !.objs = Append(@, Len(h1.heap))],
         ref |-> Len(h1.heap)])

create_string(h, str) ==
    IF strings_get(h, str) # {}
    THEN [h |-> h, ref |-> CHOOSE a \in strings_get(h, str) : TRUE]
    ELSE Let([h EXCEPT !.heap = Append(@, str)], LAMBDA h1 :
             [h |-> [h1 EXCEPT !.strings = HashSet_insert(h1, Len(h1.heap)),
                               !.objs = Append(@, Len(h1.heap))],
              ref |-> Len(h1.heap)])

\* impl Display for Value
Value_to_string(h, v) ==
    CASE v.t = "Number" -> f64_to_string(v)
      [] v.t = "String" -> "\"" \o h[v.ref] \o "\""
      [] v.t = "Bool" -> (IF v.b THEN "true" ELSE "false")
      [] OTHER -> "nil"

(***************************************************************************)
(* chunks.rs                                                               *)
(***************************************************************************)
Chunk_default == [code |-> <<>>, constants |-> <<>>, lines |-> <<>>]

\* mutant of Chunk_write: a pair is pushed when the line grows only
Chunk_write_growing(ch, byte, line) ==
    IF Len(ch.lines) > 0 /\ ch.lines[Len(ch.lines)][2] >= line
    THEN [ch EXCEPT !.code = Append(@, byte)]
    ELSE [ch EXCEPT !.code = Append(@, byte), !.lines = Append(@, <<Len(ch.code), line>>)]

Chunk_write(ch, byte, line) ==
    IF Len(ch.lines) > 0 /\ ch.lines[Len(ch.lines)][2] = line
    THEN [ch EXCEPT !.code = Append(@, byte)]
    ELSE [ch EXCEPT !.code = Append(@, byte), !.lines = Append(@, <<Len(ch.code), line>>)]

\* mutant of Chunk_add: the limit is tested one entry late
Chunk_add_one_late(ch, val) ==
    IF Len(ch.constants) > U8_MAX + 1
    THEN [chunk |-> ch, ok |-> FALSE, index |-> 0]
    ELSE [chunk |-> [ch EXCEPT !.constants = Append(@, val)], ok |-> TRUE,
          index |-> Len(ch.constants) % 256]

Chunk_add(ch, val) ==
    IF Len(ch.constants) > U8_MAX
    THEN [chunk |-> ch, ok |-> FALSE, index |-> 0]
    ELSE [chunk |-> [ch EXCEPT !.constants = Append(@, val)], ok |-> TRUE,
          index |-> Len(ch.constants) % 256]


(***************************************************************************)
(* parser.rs: Parser.  The compiler state cc holds                         *)
(*   scanner, current, previous, had_error, panic_mode   (Parser)          *)
(*   locals, scope_depth, chunk                          (Compiler)        *)
(*   h = [heap, objs, strings]                           (the borrowed VM) *)
(*   diag    the lines error_at printed                                    *)
(*   dead    the compiler thread has panicked (unwrap, unimplemented!)     *)
(*   stmts   history of the statements compiled: [start, end, locals]      *)
(*   resolved  history of the resolve_local calls: [locals, name, some,    *)
(*             index], locals being the names in Compiler.locals           *)
(* Once dead, no operation changes cc.                                     *)
(***************************************************************************)
PREC_None == 0
PREC_Assignment == 1
PREC_Or == 2
PREC_And == 3
PREC_Equality == 4
PREC_Comparison == 5
PREC_Term == 6
PREC_Factor == 7
PREC_Unary == 8
PREC_Call == 9
PREC_Primary == 10

Parser_new(source) ==
    [scanner |-> Scanner_new(source), current |-> NoToken, previous |-> NoToken,
     had_error |-> FALSE, panic_mode |-> FALSE]

Local_new(name, depth) == [name |-> name, depth |-> depth]

Compiler_new(source, h) ==
    Parser_new(source) @@
    [locals |-> <<>>, scope_depth |-> 0, chunk |-> Chunk_default, h |-> h,
     diag |-> <<>>, dead |-> FALSE, stmts |-> <<>>, resolved |-> <<>>]

panic(cc) == [cc EXCEPT !.dead = TRUE]

\* mutant of error_at: the error is reported in panic mode too
error_at_in_panic(cc, msg) ==
    IF cc.dead THEN cc
    ELSE [cc EXCEPT !.had_error = TRUE, !.panic_mode = TRUE,
                    !.diag = IF cc.current.ttype # "None"
                             THEN Append(@, [line |-> cc.current.line, msg |-> msg])
                             ELSE @]

error_at(cc, msg) ==
    IF cc.dead \/ cc.panic_mode THEN cc
    ELSE [cc EXCEPT !.had_error = TRUE, !.panic_mode = TRUE,
                    !.diag = IF cc.current.ttype # "None"
                             THEN Append(@, [line |-> cc.current.line, msg |-> msg])
                             ELSE @]

RECURSIVE advance_loop(_)
advance_loop(cc) ==
    Let(scan_token(cc.scanner), LAMBDA r :
        Let([cc EXCEPT !.scanner = r.s, !.current = r.tok], LAMBDA c1 :
            IF error_message(r.tok.ttype) # "None"
            THEN advance_loop(error_at(c1, error_message(r.tok.ttype)))
            ELSE c1))

Parser_advance(cc) ==
    IF cc.dead THEN cc
    ELSE advance_loop([cc EXCEPT !.previous = cc.current, !.current = NoToken])

check(cc, tt) == cc.current.ttype = tt

match_token(cc, tt) ==
    IF ~check(cc, tt) THEN [cc |-> cc, ok |-> FALSE]
    ELSE [cc |-> Parser_advance(cc), ok |-> TRUE]

consume(cc, tt, msg) ==
    IF cc.current.ttype = tt THEN Parser_advance(cc) ELSE error_at(cc, msg)

get_rule(tt) ==
    CASE tt = "LeftParen" -> [prefix |-> "grouping", infix |-> "None", precedence |-> PREC_None]
      [] tt = "Minus" -> [prefix |-> "unary", infix |-> "binary", precedence |-> PREC_Term]
      [] tt = "Plus" -> [prefix |-> "None", infix |-> "binary", precedence |-> PREC_Term]
      [] tt = "Slash" -> [prefix |-> "None", infix |-> "binary", precedence |-> PREC_Factor]
      [] tt = "Star" -> [prefix |-> "None", infix |-> "binary", precedence |-> PREC_Factor]
      [] tt = "Bang" -> [prefix |-> "unary", infix |-> "None", precedence |-> PREC_None]
      [] tt = "BangEqual" -> [prefix |-> "None", infix |-> "binary", precedence |-> PREC_Equality]
      [] tt = "EqualEqual" -> [prefix |-> "None", infix |-> "binary", precedence |-> PREC_Equality]
      [] tt = "Greater" -> [prefix |-> "None", infix |-> "binary", precedence |-> PREC_Comparison]
      [] tt = "GreaterEqual" -> [prefix |-> "None", infix |-> "binary", precedence |-> PREC_Comparison]
      [] tt = "Less" -> [prefix |-> "None", infix |-> "binary", precedence |-> PREC_Comparison]
      [] tt = "LessEqual" -> [prefix |-> "None", infix |-> "binary", precedence |-> PREC_Comparison]
      [] tt = "Identifer" -> [prefix |-> "variable", infix |-> "None", precedence |-> PREC_None]
      [] tt = "String" -> [prefix |-> "string", infix |-> "None", precedence |-> PREC_None]
      [] tt = "Number" -> [prefix |-> "number", infix |-> "None", precedence |-> PREC_None]
      [] tt = "False" -> [prefix |-> "literal", infix |-> "None", precedence |-> PREC_None]
      [] tt = "Nil" -> [prefix |-> "literal", infix |-> "None", precedence |-> PREC_None]
      [] tt = "True" -> [prefix |-> "literal", infix |-> "None", precedence |-> PREC_None]
      [] tt = "And" -> [prefix |-> "None", infix |-> "and_op", precedence |-> PREC_And]
      [] tt = "Or" -> [prefix |-> "None", infix |-> "or_op", precedence |-> PREC_Or]
      [] OTHER -> [prefix |-> "None", infix |-> "None", precedence |-> PREC_None]

(***************************************************************************)
(* compiler.rs: emission                                                   *)
(***************************************************************************)
emit_byte_with_line(cc, byte, line) ==
    IF cc.dead THEN cc ELSE [cc EXCEPT !.chunk = Chunk_write(@, byte, line)]

emit_byte(cc, byte) == emit_byte_with_line(cc, byte, cc.previous.line)

emit_bytes(cc, byte1, byte2) == emit_byte(emit_byte(cc, byte1), byte2)

emit_loop_offset(c1, offset) ==
    emit_byte(emit_byte(IF offset > U16_MAX THEN error_at(c1, "TooFarToLoop") ELSE c1,
                        (offset \div 256) % 256),
              offset % 256)

\* mutant of emit_loop: the two operand bytes are not counted
emit_loop_short(cc, loop_start) ==
    Let(emit_byte(cc, Op_Loop), LAMBDA c1 :
        emit_loop_offset(c1, Len(c1.chunk.code) - loop_start))

emit_loop(cc, loop_start) ==
    Let(emit_byte(cc, Op_Loop), LAMBDA c1 :
        emit_loop_offset(c1, Len(c1.chunk.code) - loop_start + 2))

\* mutant of emit_jump: the offset returned is that of the opcode
emit_jump_at_opcode(cc, instruction) ==
    Let(emit_byte(emit_byte(emit_byte(cc, instruction), 255), 255), LAMBDA c1 :
        [cc |-> c1, offset |-> Len(c1.chunk.code) - 3])

\* returns [cc, offset]
emit_jump(cc, instruction) ==
    Let(emit_byte(emit_byte(emit_byte(cc, instruction), 255), 255), LAMBDA c1 :
        [cc |-> c1, offset |-> Len(c1.chunk.code) - 2])

emit_return(cc) == emit_byte(cc, Op_Return)

\* mutant of emit_constant: the operand is the number of constants, not the
\* index of the one added
emit_constant_counts(cc, value) ==
    IF cc.dead THEN cc
    ELSE Let(Chunk_add(cc.chunk, value), LAMBDA r :
             IF r.ok THEN emit_bytes([cc EXCEPT !.chunk = r.chunk], Op_Constant,
                                     Len(r.chunk.constants) % 256)
             ELSE error_at(cc, "Too many constants in one chunk. Chunk overloaded."))

emit_constant(cc, value) ==
    IF cc.dead THEN cc
    ELSE Let(Chunk_add(cc.chunk, value), LAMBDA r :
             IF r.ok THEN emit_bytes([cc EXCEPT !.chunk = r.chunk], Op_Constant, r.index)
             ELSE error_at(cc, "Too many constants in one chunk. Chunk overloaded."))

\* mutant of patch_jump: the limit is tested one byte late
patch_jump_one_late(cc, offset) ==
    IF cc.dead THEN cc
    ELSE Let(Len(cc.chunk.code) - offset - 2, LAMBDA jump :
             IF jump > U16_MAX + 1 THEN error_at(cc, "TooMuchToJump")
             ELSE [cc EXCEPT !.chunk.code[offset + 1] = (jump \div 256) % 256,
                             !.chunk.code[offset + 2] = jump % 256])

\* code[offset] is the element offset + 1 of the sequence
patch_jump(cc, offset) ==
    IF cc.dead THEN cc
    ELSE Let(Len(cc.chunk.code) - offset - 2, LAMBDA jump :
             IF jump > U16_MAX THEN error_at(cc, "TooMuchToJump")
             ELSE [cc EXCEPT !.chunk.code[offset + 1] = (jump \div 256) % 256,
                             !.chunk.code[offset + 2] = jump % 256])

end_compiler(cc) == emit_return(cc)

(***************************************************************************)
(* compiler.rs: scopes and variables                                       *)
(***************************************************************************)
begin_scope(cc) == IF cc.dead THEN cc ELSE [cc EXCEPT !.scope_depth = @ + 1]

RECURSIVE end_scope_loop(_)
end_scope_loop(cc) ==
    IF Len(cc.locals) > 0 /\ cc.locals[Len(cc.locals)].depth > cc.scope_depth
    THEN end_scope_loop([emit_byte(cc, Op_Pop) EXCEPT
                             !.locals = SubSeq(@, 1, Len(@) - 1)])
    ELSE cc

\* mutant of end_scope: the scope is left and its locals stay
end_scope_keeps_locals(cc) ==
    IF cc.dead THEN cc
    ELSE IF cc.scope_depth = 0 THEN panic(cc)
    ELSE [cc EXCEPT !.scope_depth = @ - 1]

end_scope(cc) ==
    IF cc.dead THEN cc
    ELSE IF cc.scope_depth = 0 THEN panic(cc)
    ELSE end_scope_loop([cc EXCEPT !.scope_depth = @ - 1])

\* returns [cc, ok, index]
identififer_constant(cc, t) ==
    Let(create_string(cc.h, t.lexeme), LAMBDA s :
        Let(Chunk_add(cc.chunk, String(s.ref)), LAMBDA r :
            [cc |-> [cc EXCEPT !.h = s.h, !.chunk = r.chunk],
             ok |-> r.ok, index |-> r.index]))

\* returns [some, index]: the first match from the front of locals
resolve_local(cc, name) ==
    Let({i \in 1..Len(cc.locals) : cc.locals[i].name = name}, LAMBDA hits :
        IF hits = {} THEN [some |-> FALSE, index |-> 0]
        ELSE [some |-> TRUE,
              index |-> ((CHOOSE i \in hits : \A j \in hits : i <= j) - 1) % 256])

\* mutant of add_local: the limit is tested one entry late
add_local_one_late(cc, name) ==
    IF Len(cc.locals) > U8_MAX + 1
    THEN error_at(cc, "Too many local variables in function")
    ELSE [cc EXCEPT !.locals = Append(@, Local_new(name, cc.scope_depth))]

add_local(cc, name) ==
    IF Len(cc.locals) = U8_MAX + 1
    THEN error_at(cc, "Too many local variables in function")
    ELSE [cc EXCEPT !.locals = Append(@, Local_new(name, cc.scope_depth))]

\* the locals the loop visits before its break: the trailing run whose depth
\* is not below scope_depth
RECURSIVE declared_in_scope(_, _, _)
declared_in_scope(cc, i, name) ==
    IF i = 0 THEN FALSE
    ELSE IF cc.locals[i].depth < cc.scope_depth THEN FALSE
    ELSE IF cc.locals[i].name = name THEN TRUE
    ELSE declared_in_scope(cc, i - 1, name)

\* mutant of declare_variable: the walk does not stop at the enclosing scope
declare_variable_any_scope(cc) ==
    IF cc.dead \/ cc.scope_depth = 0 THEN cc
    ELSE IF \E j \in DOMAIN cc.locals : cc.locals[j].name = cc.previous.lexeme
         THEN error_at(cc, "Already a variable in scope with this name.")
         ELSE add_local(cc, cc.previous.lexeme)

declare_variable(cc) ==
    IF cc.dead \/ cc.scope_depth = 0 THEN cc
    ELSE IF declared_in_scope(cc, Len(cc.locals), cc.previous.lexeme)
         THEN error_at(cc, "Already a variable in scope with this name.")
         ELSE add_local(cc, cc.previous.lexeme)

\* returns [cc, ok, index]
parse_variable(cc, error) ==
    Let(declare_variable(consume(cc, "Identifer", error)), LAMBDA c1 :
        IF c1.scope_depth > 0 THEN [cc |-> c1, ok |-> TRUE, index |-> 0]
        ELSE IF c1.dead THEN [cc |-> c1, ok |-> TRUE, index |-> 0]
        ELSE identififer_constant(c1, c1.previous))

mark_initialized(cc) ==
    IF cc.dead THEN cc
    ELSE IF Len(cc.locals) = 0 THEN panic(cc)
    ELSE [cc EXCEPT !.locals[Len(cc.locals)].depth = cc.scope_depth]

define_variable(cc, global) ==
    IF cc.scope_depth > 0 THEN mark_initialized(cc)
    ELSE emit_bytes(cc, Op_DefineGlobal, global)


(***************************************************************************)
(* compiler.rs / parser.rs: the recursive descent.  Every operator maps a  *)
(* compiler state to the compiler state after the call.                    *)
(***************************************************************************)
\* descend(fn, cc, arg) is the call of declaraction, statement or parse_precedence
\* named by fn, the three operators through which the descent recurses
RECURSIVE descend(_, _, _)

expression(cc) == descend("parse_precedence", cc, PREC_Assignment)

number(cc, can_assign) == emit_constant(cc, parse_f64(cc.previous.lexeme))

string(cc, can_assign) ==
    IF cc.dead THEN cc
    ELSE Let(create_string(cc.h, SubSeq(cc.previous.lexeme, 2,
                                        Len(cc.previous.lexeme) - 1)), LAMBDA w :
             emit_constant([cc EXCEPT !.h = w.h], String(w.ref)))

literal(cc, can_assign) ==
    CASE cc.previous.ttype = "False" -> emit_byte(cc, Op_False)
      [] cc.previous.ttype = "True" -> emit_byte(cc, Op_True)
      [] cc.previous.ttype = "Nil" -> emit_byte(cc, Op_Nil)
      [] OTHER -> panic(cc)

and_op(cc, can_assign) == panic(cc)

or_op(cc, can_assign) == panic(cc)

grouping(cc, can_assign) ==
    consume(expression(cc), "RightParen", "Unclosed ')' parenthesis.")

\* the match on the operator type after the operand has been compiled into c1
unary_emit(c1, op, line) ==
    CASE op = "Bang" -> emit_byte_with_line(c1, Op_Not, line)
      [] op = "Minus" -> emit_byte_with_line(c1, Op_Negate, line)
      [] OTHER -> panic(c1)

unary(cc, can_assign) ==
    unary_emit(descend("parse_precedence", cc, PREC_Unary),
               cc.previous.ttype, cc.previous.line)

\* the match on the operator type after the right operand has been compiled
binary_emit(c1, tt) ==
    CASE tt = "Plus" -> emit_byte(c1, Op_Addition)
      [] tt = "Minus" -> emit_byte(c1, Op_Subtract)
      [] tt = "Star" -> emit_byte(c1, Op_Multiply)
      [] tt = "Slash" -> emit_byte(c1, Op_Divide)
      [] tt = "BangEqual" -> emit_bytes(c1, Op_Equal, Op_Not)
      [] tt = "EqualEqual" -> emit_byte(c1, Op_Equal)
      [] tt = "Greater" -> emit_byte(c1, Op_Greater)
      [] tt = "GreaterEqual" -> emit_bytes(c1, Op_Less, Op_Not)
      [] tt = "Less" -> emit_byte(c1, Op_Less)
      [] tt = "LessEqual" -> emit_bytes(c1, Op_Greater, Op_Not)
      [] OTHER -> panic(c1)

\* mutant of binary: the right operand is parsed at the operator's own
\* precedence, which makes the operators associate to the right
binary_right_assoc(cc, can_assign) ==
    Let(get_rule(cc.previous.ttype).precedence, LAMBDA precedence :
        binary_emit(descend("parse_precedence", cc, precedence), cc.previous.ttype))

binary(cc, can_assign) ==
    Let(get_rule(cc.previous.ttype).precedence, LAMBDA precedence :
        binary_emit(IF precedence + 1 > PREC_Primary THEN panic(cc)
                    ELSE descend("parse_precedence", cc, precedence + 1),
                    cc.previous.ttype))

\* the tail of named_variable: the assignment or the read, with the opcodes
\* and the operand the resolution chose
named_variable_emit(c1, can_assign, get_op, set_op, arg) ==
    Let(match_token(c1, "Equal"), LAMBDA m :
        IF can_assign /\ m.ok
        THEN Let(expression(m.cc), LAMBDA c2 : emit_bytes(c2, set_op, arg))
        ELSE emit_bytes(c1, get_op, arg))

\* history: the call resolve_local(name) that returned loc is recorded
record_resolve(cc, name, loc) ==
    [cc EXCEPT !.resolved =
         Append(@, [locals |-> [i \in 1..Len(cc.locals) |-> cc.locals[i].name],
                    name |-> name, some |-> loc.some, index |-> loc.index])]

named_variable(cc, token, can_assign) ==
    IF cc.dead THEN cc
    ELSE Let(resolve_local(cc, token.lexeme), LAMBDA loc :
             IF loc.some
             THEN named_variable_emit(record_resolve(cc, token.lexeme, loc),
                                      can_assign, Op_GetLocal, Op_SetLocal, loc.index)
             ELSE Let(identififer_constant(record_resolve(cc, token.lexeme, loc),
                                           token), LAMBDA glob :
                      IF glob.ok
                      THEN named_variable_emit(glob.cc, can_assign, Op_GetGlobal,
                                               Op_SetGlobal, glob.index)
                      ELSE panic(error_at(glob.cc,
                               "Too many constants in one chunk. Chunk overloaded."))))

\* parser.rs has the stub unimplemented!("variable"); the handler delegates
\* to Compiler::named_variable with the identifier just consumed
variable(cc, can_assign) == named_variable(cc, cc.previous, can_assign)

prefix_rule(rule, cc, can_assign) ==
    CASE rule = "grouping" -> grouping(cc, can_assign)
      [] rule = "unary" -> unary(cc, can_assign)
      [] rule = "variable" -> variable(cc, can_assign)
      [] rule = "string" -> string(cc, can_assign)
      [] rule = "number" -> number(cc, can_assign)
      [] rule = "literal" -> literal(cc, can_assign)
      [] OTHER -> panic(cc)

infix_rule(rule, cc, can_assign) ==
    CASE rule = "binary" -> binary(cc, can_assign)
      [] rule = "and_op" -> and_op(cc, can_assign)
      [] rule = "or_op" -> or_op(cc, can_assign)
      [] OTHER -> panic(cc)

RECURSIVE infix_loop(_, _, _)
infix_loop(cc, prec, assign) ==
    IF cc.dead THEN cc
    ELSE IF prec <= get_rule(cc.current.ttype).precedence
    THEN Let(Parser_advance(cc), LAMBDA c1 :
             infix_loop(infix_rule(get_rule(c1.previous.ttype).infix, c1, assign),
                        prec, assign))
    ELSE cc

\* the prefix rule of the token just consumed, or the error for a token
\* without one
parse_prefix(c1, assign) ==
    Let(get_rule(c1.previous.ttype).prefix, LAMBDA prefix :
        IF prefix # "None" THEN prefix_rule(prefix, c1, assign)
        ELSE error_at(c1, "Parse Error. Expected expression."))

\* the check for a dangling '=' after the expression
invalid_assignment(c3, assign) ==
    Let(match_token(c3, "Equal"), LAMBDA m :
        IF assign /\ m.ok
        THEN error_at(m.cc, "Parse Error. Invalid assignment target.")
        ELSE c3)

\* mutant of parse_precedence: every operand may be assigned to
parse_precedence_always_assign(cc, prec) ==
    IF cc.dead THEN cc
    ELSE Let(parse_prefix(Parser_advance(cc), TRUE), LAMBDA c2 :
             invalid_assignment(infix_loop(c2, prec, TRUE), TRUE))

parse_precedence(cc, prec) ==
    IF cc.dead THEN cc
    ELSE Let(parse_prefix(Parser_advance(cc), prec <= PREC_Assignment), LAMBDA c2 :
             invalid_assignment(infix_loop(c2, prec, prec <= PREC_Assignment),
                                prec <= PREC_Assignment))

RECURSIVE block(_)
block(cc) ==
    IF cc.dead THEN cc
    ELSE IF ~check(cc, "RightBrace") /\ ~check(cc, "Eof")
    THEN block(descend("declaraction", cc, 0))
    ELSE consume(cc, "RightBrace", "Unclosed '{'. Expect a '}' after block.")

\* history: the span of code a statement that began in cc emitted, and the
\* locals in scope when it began
record_statement(cc, c1) ==
    [c1 EXCEPT !.stmts = Append(@, [start |-> Len(cc.chunk.code),
                                    end |-> Len(c1.chunk.code),
                                    locals |-> Len(cc.locals)])]

var_initializer(cc) ==
    Let(match_token(cc, "Equal"), LAMBDA m :
        IF m.ok THEN expression(m.cc) ELSE emit_byte(cc, Op_Nil))

var_define(var, c2) ==
    IF var.ok THEN define_variable(c2, var.index)
    ELSE error_at(var.cc, "Too many constants in one chunk. Chunk overloaded.")

\* history: a global declaration is recorded as a statement
var_declaration(cc) ==
    IF cc.dead THEN cc
    ELSE Let(parse_variable(cc, "Expect variable name"), LAMBDA var :
         Let(var_define(var, consume(var_initializer(var.cc), "SemiColon",
                                     "Expect ';' after variable declaration.")),
             LAMBDA c3 :
             IF cc.scope_depth = 0 /\ ~c3.dead THEN record_statement(cc, c3) ELSE c3))

\* mutant of expression_statement: the Pop after the expression is missing
expression_statement_no_pop(cc) ==
    Let(expression(cc), LAMBDA c1 :
        consume(c1, "SemiColon", "Expect ';' after expression."))

expression_statement(cc) ==
    Let(expression(cc), LAMBDA c1 :
        emit_byte(consume(c1, "SemiColon", "Expect ';' after expression."), Op_Pop))

\* the initializer clause of for
for_initializer(c0) ==
    Let(match_token(c0, "SemiColon"), LAMBDA m1 :
        IF m1.ok THEN m1.cc
        ELSE Let(match_token(c0, "Var"), LAMBDA m2 :
                 IF m2.ok THEN var_declaration(m2.cc)
                 ELSE expression_statement(c0)))

\* the condition clause of for: [cc, has_exit, exit_jump]
for_condition(c1) ==
    Let(match_token(c1, "SemiColon"), LAMBDA m3 :
        IF m3.ok THEN [cc |-> m3.cc, has_exit |-> FALSE, exit_jump |-> 0]
        ELSE Let(emit_jump(consume(expression(c1), "SemiColon",
                                   "Expect ';' atfter loop condition."),
                           Op_JumpIfFalse), LAMBDA j1 :
                 [cc |-> emit_byte(j1.cc, Op_Pop), has_exit |-> TRUE,
                  exit_jump |-> j1.offset]))

\* the increment clause of for: [cc, loop_start]
for_increment(c2, loop_start) ==
    Let(match_token(c2, "RightParen"), LAMBDA m4 :
        IF m4.ok THEN [cc |-> m4.cc, loop_start |-> loop_start]
        ELSE Let(emit_jump(c2, Op_Jump), LAMBDA j2 :
                 [cc |-> patch_jump(
                             emit_loop(
                                 consume(emit_byte(expression(j2.cc), Op_Pop),
                                         "RightParen",
                                         "Expect ')' after 'for' clause. Unclosed parenthesis."),
                                 loop_start),
                             j2.offset),
                  loop_start |-> Len(j2.cc.chunk.code)]))

\* the body of for, the loop back and the exit
for_body(inc, cond) ==
    Let(descend("statement", inc.cc, 0), LAMBDA c4 :
        IF cond.has_exit
        THEN emit_byte(patch_jump(emit_loop(c4, inc.loop_start), cond.exit_jump), Op_Pop)
        ELSE emit_loop(c4, inc.loop_start))

\* mutant of for_statement: the exit jump of the condition is never patched
for_statement_unpatched_exit(cc) ==
    Let(for_initializer(consume(begin_scope(cc), "LeftParen",
                                "Expect '(' after 'for'.")), LAMBDA c1 :
        Let(for_condition(c1), LAMBDA cond :
            end_scope(for_body(for_increment(cond.cc, Len(c1.chunk.code)),
                               [cond EXCEPT !.has_exit = FALSE]))))

for_statement(cc) ==
    Let(for_initializer(consume(begin_scope(cc), "LeftParen",
                                "Expect '(' after 'for'.")), LAMBDA c1 :
        Let(for_condition(c1), LAMBDA cond :
            end_scope(for_body(for_increment(cond.cc, Len(c1.chunk.code)), cond))))

\* the else clause of if
if_else(c3) ==
    Let(match_token(c3, "Else"), LAMBDA m :
        IF m.ok THEN descend("statement", m.cc, 0) ELSE c3)

\* mutant of if_statement: the jump over the then branch lands after the
\* else branch
if_statement_skips_else(cc) ==
    Let(emit_jump(consume(expression(consume(cc, "LeftParen",
                                             "Expect a '(' after an 'if'.")),
                          "RightParen", "Expect ')'. Unclosed parenthesis."),
                  Op_JumpIfFalse), LAMBDA then_jump :
        Let(emit_jump(descend("statement", emit_byte(then_jump.cc, Op_Pop), 0), Op_Jump),
            LAMBDA else_jump :
            patch_jump(patch_jump(if_else(emit_byte(else_jump.cc, Op_Pop)),
                                  then_jump.offset),
                       else_jump.offset)))

if_statement(cc) ==
    Let(emit_jump(consume(expression(consume(cc, "LeftParen",
                                             "Expect a '(' after an 'if'.")),
                          "RightParen", "Expect ')'. Unclosed parenthesis."),
                  Op_JumpIfFalse), LAMBDA then_jump :
        Let(emit_jump(descend("statement", emit_byte(then_jump.cc, Op_Pop), 0), Op_Jump),
            LAMBDA else_jump :
            patch_jump(if_else(emit_byte(patch_jump(else_jump.cc, then_jump.offset),
                                         Op_Pop)),
                       else_jump.offset)))

print_statement(cc) ==
    Let(expression(cc), LAMBDA c1 :
        emit_byte(consume(c1, "SemiColon", "Expect ';' after print statement."),
                  Op_Print))

while_statement(cc) ==
    Let(emit_jump(consume(expression(consume(cc, "LeftParen",
                                             "Expect a '(' after a 'while'.")),
                          "RightParen",
                          "Unclosed parenthesis. Expect ')' after condition."),
                  Op_JumpIfFalse), LAMBDA exit_jump :
        Let(descend("statement", emit_byte(exit_jump.cc, Op_Pop), 0), LAMBDA c2 :
            emit_byte(patch_jump(emit_loop(c2, Len(cc.chunk.code)), exit_jump.offset),
                      Op_Pop)))

RECURSIVE sync_loop(_)
sync_loop(cc) ==
    IF cc.dead \/ cc.current.ttype = "Eof" THEN cc
    ELSE IF cc.previous.ttype = "SemiColon" THEN cc
    ELSE IF cc.current.ttype \in {"Class", "Fun", "Var", "For", "If", "While",
                                  "Print", "Return"} THEN cc
    ELSE sync_loop(Parser_advance(cc))

set_panic(cc, panic_mode) == IF cc.dead THEN cc ELSE [cc EXCEPT !.panic_mode = panic_mode]

get_panic(cc) == cc.panic_mode

\* mutant of synchronize: the current token is discarded before the loop
synchronize_discards_current(cc) == sync_loop(Parser_advance(set_panic(cc, TRUE)))

synchronize(cc) == sync_loop(set_panic(cc, TRUE))

\* mutant of declaraction: a closing brace that begins a statement is
\* reported and left as the current token
declaraction_leaves_brace(cc) ==
    IF cc.dead THEN cc
    ELSE IF check(cc, "RightBrace") THEN error_at(cc, "Expected expression.")
    ELSE Let(Let(match_token(cc, "Var"), LAMBDA m :
                 IF m.ok THEN var_declaration(m.cc) ELSE descend("statement", cc, 0)),
             LAMBDA c1 : IF get_panic(c1) THEN synchronize(c1) ELSE c1)

declaraction(cc) ==
    IF cc.dead THEN cc
    ELSE Let(Let(match_token(cc, "Var"), LAMBDA m :
                 IF m.ok THEN var_declaration(m.cc) ELSE descend("statement", cc, 0)),
             LAMBDA c1 : IF get_panic(c1) THEN synchronize(c1) ELSE c1)

\* the chain of match_token tests: match_token succeeds, and consumes the
\* token, exactly when check holds
statement_body(cc) ==
    CASE check(cc, "Print") -> print_statement(match_token(cc, "Print").cc)
      [] check(cc, "For") -> for_statement(match_token(cc, "For").cc)
      [] check(cc, "If") -> if_statement(match_token(cc, "If").cc)
      [] check(cc, "While") -> while_statement(match_token(cc, "While").cc)
      [] check(cc, "LeftBrace") ->
            end_scope(block(begin_scope(match_token(cc, "LeftBrace").cc)))
      [] OTHER -> expression_statement(cc)

\* history: the statement is recorded with the span of code it emitted
statement(cc) ==
    IF cc.dead THEN cc
    ELSE Let(statement_body(cc), LAMBDA c1 :
             IF c1.dead THEN c1 ELSE record_statement(cc, c1))

descend(fn, cc, arg) ==
    CASE fn = "parse_precedence" -> parse_precedence(cc, arg)
      [] fn = "statement" -> statement(cc)
      [] fn = "declaraction" -> declaraction(cc)

RECURSIVE compile_loop(_)
compile_loop(cc) ==
    IF cc.dead THEN cc
    ELSE Let(match_token(cc, "Eof"), LAMBDA m :
             IF m.ok THEN m.cc ELSE compile_loop(descend("declaraction", m.cc, 0)))

\* the compiler state when compile returns (or the thread panics); compile
\* installs cc.chunk as vm.chunks and returns Ok(())
compile(source, h) ==
    end_compiler(consume(compile_loop(Parser_advance(Compiler_new(source, h))),
                         "Eof", "Expected end of expression"))

compile_returns(cc) == "Ok"


(***************************************************************************)
(* disassembler.rs: TracingIp.  The reads return [ok, value, ip]; ok is    *)
(* FALSE when the index is out of range and the thread panics.             *)
(***************************************************************************)
valid(chunk, offset) == offset < Len(chunk.code)

\* the loop of get_line from the pair number i on, `line` being the Option
\* it holds so far: [some, line]
RECURSIVE get_line_loop(_, _, _, _)
get_line_loop(chunk, offset, i, line) ==
    IF i > Len(chunk.lines) THEN line
    ELSE IF chunk.lines[i][1] > offset THEN line
    ELSE get_line_loop(chunk, offset, i + 1, [some |-> TRUE, line |-> chunk.lines[i][2]])

get_line(chunk, offset) == get_line_loop(chunk, offset, 1, [some |-> FALSE, line |-> 0])

TracingIp_read(chunk, offset) ==
    IF valid(chunk, offset)
    THEN [ok |-> TRUE, value |-> chunk.code[offset + 1], ip |-> offset + 1]
    ELSE [ok |-> FALSE, value |-> 0, ip |-> offset]

\* a | b on unsigned integers
RECURSIVE BitOr(_, _)
BitOr(a, b) ==
    IF a = 0 THEN b
    ELSE IF b = 0 THEN a
    ELSE (IF a % 2 = 1 \/ b % 2 = 1 THEN 1 ELSE 0) + 2 * BitOr(a \div 2, b \div 2)

\* (high >> 8) | low on u16
read_short(chunk, offset) ==
    LET high == TracingIp_read(chunk, offset)
        low == TracingIp_read(chunk, high.ip)
    IN IF high.ok /\ low.ok
       THEN [ok |-> TRUE, value |-> BitOr(high.value \div 256, low.value), ip |-> low.ip]
       ELSE [ok |-> FALSE, value |-> 0, ip |-> offset]

read_constant(chunk, offset) ==
    LET off == TracingIp_read(chunk, offset) IN
    IF off.ok /\ off.value < Len(chunk.constants)
    THEN [ok |-> TRUE, value |-> chunk.constants[off.value + 1], ip |-> off.ip]
    ELSE [ok |-> FALSE, value |-> Nil, ip |-> offset]

(***************************************************************************)
(* vm.rs: VM::run.  The machine state is vm = [stack, h, globals, out];    *)
(* an instruction yields [vm, ip, status] with status                      *)
(*   "continue"  the loop goes on                                          *)
(*   "Ok"        run returns Ok(())                                        *)
(*   "Err"       run returns Err(RuntimeError)                             *)
(*   "panic"     the thread panics (index out of range)                    *)
(***************************************************************************)
Outcome(vm, pc, status) == [vm |-> vm, ip |-> pc, status |-> status]

Push(vm, v) == [vm EXCEPT !.stack = Append(@, v)]

\* returns [ok, value, vm]; ok = FALSE is Err(StackUnderFlow)
VM_pop(vm) ==
    IF Len(vm.stack) = 0 THEN [ok |-> FALSE, value |-> Nil, vm |-> vm]
    ELSE [ok |-> TRUE, value |-> vm.stack[Len(vm.stack)],
          vm |-> [vm EXCEPT !.stack = SubSeq(@, 1, Len(@) - 1)]]

\* returns [ok, value]; ok = FALSE is the index panic
VM_peek(vm, distance) ==
    IF Len(vm.stack) - 1 - distance < 0 THEN [ok |-> FALSE, value |-> Nil]
    ELSE [ok |-> TRUE, value |-> vm.stack[Len(vm.stack) - distance]]

\* the value of (a $op b).into() for the operator token of binary_op!
apply_op(op, a, b) ==
    CASE op = "-" -> f64_sub(a, b)
      [] op = "*" -> f64_mul(a, b)
      [] op = "/" -> f64_div(a, b)
      [] op = ">" -> Bool(f64_gt(a, b))
      [] op = "<" -> Bool(f64_lt(a, b))

\* mutant of binary_op_left: the operands are applied in the order popped
binary_op_left_swapped(pb, pc, op) ==
    Let(VM_pop(pb.vm), LAMBDA pa :
        IF ~pa.ok THEN Outcome(pb.vm, pc, "Err")
        ELSE IF pa.value.t # "Number" THEN Outcome(pa.vm, pc, "Err")
        ELSE Outcome(Push(pa.vm, apply_op(op, pb.value, pa.value)), pc, "continue"))

\* after b was popped as pb: pop a and push the result
binary_op_left(pb, pc, op) ==
    Let(VM_pop(pb.vm), LAMBDA pa :
        IF ~pa.ok THEN Outcome(pb.vm, pc, "Err")
        ELSE IF pa.value.t # "Number" THEN Outcome(pa.vm, pc, "Err")
        ELSE Outcome(Push(pa.vm, apply_op(op, pa.value, pb.value)), pc, "continue"))

\* binary_op!
binary_op(vm, pc, op) ==
    Let(VM_pop(vm), LAMBDA pb :
        IF ~pb.ok THEN Outcome(vm, pc, "Err")
        ELSE IF pb.value.t # "Number" THEN Outcome(pb.vm, pc, "Err")
        ELSE binary_op_left(pb, pc, op))

\* string!: intern the concatenation and push it
push_string(vm, pc, str) ==
    LET s == create_string(vm.h, str) IN
    Outcome(Push([vm EXCEPT !.h = s.h], String(s.ref)), pc, "continue")

exec_Constant(vm, chunk, pc) ==
    LET c == read_constant(chunk, pc) IN
    IF ~c.ok THEN Outcome(vm, pc, "panic")
    ELSE Outcome(Push(vm, c.value), c.ip, "continue")

\* mutant of exec_Addition: the first value popped is taken as the left operand
exec_Addition_swapped(vm, chunk, pc) ==
    LET p2 == VM_pop(vm)
        p1 == VM_pop(p2.vm)
        val1 == p2.value
        val2 == p1.value
    IN IF ~p2.ok THEN Outcome(vm, pc, "Err")
       ELSE IF ~p1.ok THEN Outcome(p2.vm, pc, "Err")
       ELSE CASE val1.t = "String" /\ val2.t = "String" ->
                    push_string(p1.vm, pc, vm.h.heap[val1.ref] \o vm.h.heap[val2.ref])
              [] val1.t = "String" /\ val2.t = "Number" ->
                    push_string(p1.vm, pc, vm.h.heap[val1.ref] \o f64_to_string(val2))
              [] val1.t = "Number" /\ val2.t = "String" ->
                    push_string(p1.vm, pc, f64_to_string(val1) \o vm.h.heap[val2.ref])
              [] val1.t = "Number" /\ val2.t = "Number" ->
                    Outcome(Push(p1.vm, f64_add(val1, val2)), pc, "continue")
              [] OTHER -> Outcome(p1.vm, pc, "Err")

exec_Addition(vm, chunk, pc) ==
    LET p2 == VM_pop(vm)
        p1 == VM_pop(p2.vm)
        val1 == p1.value
        val2 == p2.value
    IN IF ~p2.ok THEN Outcome(vm, pc, "Err")
       ELSE IF ~p1.ok THEN Outcome(p2.vm, pc, "Err")
       ELSE CASE val1.t = "String" /\ val2.t = "String" ->
                    push_string(p1.vm, pc, vm.h.heap[val1.ref] \o vm.h.heap[val2.ref])
              [] val1.t = "String" /\ val2.t = "Number" ->
                    push_string(p1.vm, pc, vm.h.heap[val1.ref] \o f64_to_string(val2))
              [] val1.t = "Number" /\ val2.t = "String" ->
                    push_string(p1.vm, pc, f64_to_string(val1) \o vm.h.heap[val2.ref])
              [] val1.t = "Number" /\ val2.t = "Number" ->
                    Outcome(Push(p1.vm, f64_add(val1, val2)), pc, "continue")
              [] OTHER -> Outcome(p1.vm, pc, "Err")

exec_Not(vm, chunk, pc) ==
    LET p == VM_pop(vm) IN
    IF ~p.ok THEN Outcome(vm, pc, "Err")
    ELSE Outcome(Push(p.vm, Bool(is_falsy(p.value))), pc, "continue")

exec_Negate(vm, chunk, pc) ==
    LET p == VM_pop(vm) IN
    IF ~p.ok THEN Outcome(vm, pc, "Err")
    ELSE IF p.value.t # "Number" THEN Outcome(p.vm, pc, "Err")
    ELSE Outcome(Push(p.vm, f64_neg(p.value)), pc, "continue")

exec_Print(vm, chunk, pc) ==
    LET p == VM_pop(vm) IN
    IF ~p.ok THEN Outcome(vm, pc, "Err")
    ELSE Outcome([p.vm EXCEPT !.out = Append(@, Value_to_string(vm.h.heap, p.value))],
                 pc, "continue")

exec_Pop(vm, chunk, pc) ==
    LET p == VM_pop(vm) IN
    IF ~p.ok THEN Outcome(vm, pc, "Err") ELSE Outcome(p.vm, pc, "continue")

\* mutant of globals_insert: the map is replaced by one holding the new entry
globals_insert_replaces(vm, key, value) ==
    [vm EXCEPT !.globals = [k \in {key} |-> value]]

\* HashMap<InternString, Value>: the key is hashed and compared by content
globals_insert(vm, key, value) ==
    [vm EXCEPT !.globals = [k \in DOMAIN @ \cup {key} |-> IF k = key THEN value ELSE @[k]]]

exec_GetGlobal(vm, chunk, pc) ==
    LET val == read_constant(chunk, pc) IN
    IF ~val.ok THEN Outcome(vm, pc, "panic")
    ELSE IF val.value.t # "String" THEN Outcome(vm, val.ip, "Err")
    ELSE LET str == vm.h.heap[val.value.ref] IN
         IF str \in DOMAIN vm.globals
         THEN Outcome(Push(vm, vm.globals[str]), val.ip, "continue")
         ELSE Outcome(vm, val.ip, "Err")

\* mutant of exec_DefineGlobal: the value stored stays on the stack
exec_DefineGlobal_keeps(vm, chunk, pc) ==
    LET val == read_constant(chunk, pc)
        top == VM_peek(vm, 0)
    IN IF ~val.ok THEN Outcome(vm, pc, "panic")
       ELSE IF val.value.t # "String" THEN Outcome(vm, val.ip, "Err")
       ELSE IF ~top.ok THEN Outcome(vm, val.ip, "panic")
       ELSE Outcome(globals_insert(vm, vm.h.heap[val.value.ref], top.value),
                    val.ip, "continue")

exec_DefineGlobal(vm, chunk, pc) ==
    LET val == read_constant(chunk, pc)
        top == VM_peek(vm, 0)
    IN IF ~val.ok THEN Outcome(vm, pc, "panic")
       ELSE IF val.value.t # "String" THEN Outcome(vm, val.ip, "Err")
       ELSE IF ~top.ok THEN Outcome(vm, val.ip, "panic")
       ELSE Outcome(VM_pop(globals_insert(vm, vm.h.heap[val.value.ref], top.value)).vm,
                    val.ip, "continue")

\* mutant of exec_SetGlobal: an unknown name is defined
exec_SetGlobal_defines(vm, chunk, pc) ==
    LET val == read_constant(chunk, pc)
        top == VM_peek(vm, 0)
    IN IF ~val.ok \/ ~top.ok THEN Outcome(vm, pc, "panic")
       ELSE IF val.value.t # "String" THEN Outcome(vm, val.ip, "Err")
       ELSE Outcome(globals_insert(vm, vm.h.heap[val.value.ref], top.value),
                    val.ip, "continue")

exec_SetGlobal(vm, chunk, pc) ==
    LET val == read_constant(chunk, pc)
        top == VM_peek(vm, 0)
    IN IF ~val.ok THEN Outcome(vm, pc, "panic")
       ELSE IF val.value.t # "String" THEN Outcome(vm, val.ip, "Err")
       ELSE LET str == vm.h.heap[val.value.ref] IN
            IF str \in DOMAIN vm.globals
            THEN (IF ~top.ok THEN Outcome(vm, val.ip, "panic")
                  ELSE Outcome(globals_insert(vm, str, top.value), val.ip, "continue"))
            ELSE Outcome(vm, val.ip, "Err")

exec_Equal(vm, chunk, pc) ==
    LET pa == VM_pop(vm)
        pb == VM_pop(pa.vm)
    IN IF ~pa.ok THEN Outcome(vm, pc, "Err")
       ELSE IF ~pb.ok THEN Outcome(pa.vm, pc, "Err")
       ELSE Outcome(Push(pb.vm, Bool(Value_eq(pa.value, pb.value))), pc, "continue")

(***************************************************************************)
(* The arms of run() for Jump, JumpIfFalse, Loop, GetLocal and SetLocal    *)
(* are not in vm.rs; they follow the instruction table of the design       *)
(* (section 4.6), reading operands with TracingIp and the stack top with   *)
(* VM::peek.                                                               *)
(***************************************************************************)
exec_Jump(vm, chunk, pc) ==
    LET d == read_short(chunk, pc) IN
    IF ~d.ok THEN Outcome(vm, pc, "panic")
    ELSE Outcome(vm, d.ip + d.value, "continue")

exec_JumpIfFalse(vm, chunk, pc) ==
    LET d == read_short(chunk, pc)
        top == VM_peek(vm, 0)
    IN IF ~d.ok \/ ~top.ok THEN Outcome(vm, pc, "panic")
       ELSE IF is_falsy(top.value) THEN Outcome(vm, d.ip + d.value, "continue")
       ELSE Outcome(vm, d.ip, "continue")

exec_Loop(vm, chunk, pc) ==
    LET d == read_short(chunk, pc) IN
    IF ~d.ok \/ d.ip - d.value < 0 THEN Outcome(vm, pc, "panic")
    ELSE Outcome(vm, d.ip - d.value, "continue")

exec_GetLocal(vm, chunk, pc) ==
    LET slot == TracingIp_read(chunk, pc) IN
    IF ~slot.ok \/ slot.value >= Len(vm.stack) THEN Outcome(vm, pc, "panic")
    ELSE Outcome(Push(vm, vm.stack[slot.value + 1]), slot.ip, "continue")

exec_SetLocal(vm, chunk, pc) ==
    LET slot == TracingIp_read(chunk, pc)
        top == VM_peek(vm, 0)
    IN IF ~slot.ok \/ ~top.ok \/ slot.value >= Len(vm.stack)
       THEN Outcome(vm, pc, "panic")
       ELSE Outcome([vm EXCEPT !.stack[slot.value + 1] = top.value], slot.ip, "continue")

\* one iteration of the while pc.valid() loop, offset being valid
run_step(vm, chunk, offset) ==
    LET byte == TracingIp_read(chunk, offset)
        op == byte.value
        ip0 == byte.ip
    IN CASE op = Op_Constant -> exec_Constant(vm, chunk, ip0)
         [] op = Op_Addition -> exec_Addition(vm, chunk, ip0)
         [] op = Op_Subtract -> binary_op(vm, ip0, "-")
         [] op = Op_Multiply -> binary_op(vm, ip0, "*")
         [] op = Op_Divide -> binary_op(vm, ip0, "/")
         [] op = Op_Not -> exec_Not(vm, chunk, ip0)
         [] op = Op_Negate -> exec_Negate(vm, chunk, ip0)
         [] op = Op_Print -> exec_Print(vm, chunk, ip0)
         [] op = Op_Jump -> exec_Jump(vm, chunk, ip0)
         [] op = Op_JumpIfFalse -> exec_JumpIfFalse(vm, chunk, ip0)
         [] op = Op_Loop -> exec_Loop(vm, chunk, ip0)
         [] op = Op_True -> Outcome(Push(vm, Bool(TRUE)), ip0, "continue")
         [] op = Op_Pop -> exec_Pop(vm, chunk, ip0)
         [] op = Op_GetLocal -> exec_GetLocal(vm, chunk, ip0)
         [] op = Op_SetLocal -> exec_SetLocal(vm, chunk, ip0)
         [] op = Op_GetGlobal -> exec_GetGlobal(vm, chunk, ip0)
         [] op = Op_DefineGlobal -> exec_DefineGlobal(vm, chunk, ip0)
         [] op = Op_SetGlobal -> exec_SetGlobal(vm, chunk, ip0)
         [] op = Op_Equal -> exec_Equal(vm, chunk, ip0)
         [] op = Op_False -> Outcome(Push(vm, Bool(FALSE)), ip0, "continue")
         [] op = Op_Greater -> binary_op(vm, ip0, ">")
         [] op = Op_Less -> binary_op(vm, ip0, "<")
         [] op = Op_Nil -> Outcome(Push(vm, Nil), ip0, "continue")
         [] op = Op_Return -> Outcome(vm, ip0, "Ok")
         [] OTHER -> Outcome(vm, ip0, "Err")

\* what the loop of run() does with the outcome of an instruction: `?` and
\* return leave the loop, and so does an offset past the end of the code
run_status(chunk, r) ==
    IF r.status = "continue" /\ ~valid(chunk, r.ip) THEN "Ok" ELSE r.status

\* VM::interpret after run() returned `result`: a runtime error is printed
\* to stderr and the call returns Ok(())
interpret_returns(run_result) == "Ok"

\* run_file: the exit status for what interpret returned
exit_status(res) == IF res = "Ok" THEN 0 ELSE 69


(***************************************************************************)
(* main.rs: the driver, and VM::interpret.                                 *)
(***************************************************************************)
\* the source texts the driver feeds to interpret
Programs ==
    { "print 1 + 2 * 3;",
      "var a = 1;",
      "a = 2;",
      "print a;",
      "print ;",
      "var b = 1; print ;",
      "print \"\" + 1 == \"\" + 1;",
      "{ var a = 1; { var a = 2; print a; } }",
      "{ var a = a; }",
      "for (var i = 0; i < 2; i = i + 1) print i;",
      "var n = 0; while (n < 2) n = n + 1;",
      "if (1 > 2) print 1; else { var c = 3; print c; }",
      "print -nil; var d = 1; print 4;",
      "a + b = 1;",
      "print ; print ;" }

VM_new ==
    /\ stack = <<>>
    /\ heap = <<>>
    /\ objs = <<>>
    /\ strings = {}
    /\ globals = <<>>
    /\ chunks = Chunk_default

\* no function is called on its own while main runs
NoProbe == [fn |-> "none", done |-> TRUE]

\* the process when main starts
Started ==
    /\ VM_new
    /\ ip = 0
    /\ mode = "idle"
    /\ had_error = FALSE
    /\ diag = <<>>
    /\ compile_result = "none"
    /\ result = "none"
    /\ interpret_result = "none"
    /\ out = <<>>
    /\ driver \in {"repl", "file"}
    /\ exit_code = -1
    /\ calls = 0
    /\ stmts = <<>>
    /\ base = 0
    /\ resolved = <<>>
    /\ sources = <<>>

Init == Started /\ probe = NoProbe

\* mutant of Returned: the error is recorded and the loop of run() goes on
Returned_keeps_running(res) ==
    /\ interpret_result' = res
    /\ mode' = mode
    /\ exit_code' = exit_code

\* interpret returns res to the driver: the repl drops it (unwrap_or) and
\* reads the next line, run_file exits with its status
Returned(res) ==
    /\ interpret_result' = res
    /\ mode' = IF driver = "file" THEN "exited" ELSE "idle"
    /\ exit_code' = IF driver = "file" THEN exit_status(res) ELSE exit_code

\* VM::interpret after the compiler finished in state cc, up to the first
\* instruction of run()
interpret_compiled(src, cc) ==
    /\ calls' = calls + 1
    /\ sources' = Append(sources, src)
    /\ heap' = cc.h.heap
    /\ objs' = cc.h.objs
    /\ strings' = cc.h.strings
    /\ had_error' = cc.had_error
    /\ diag' = cc.diag
    /\ result' = "none"
    /\ UNCHANGED <<stack, globals, out, driver, probe>>
    /\ IF cc.dead
       THEN /\ mode' = "panicked"
            /\ compile_result' = "none"
            /\ interpret_result' = "pending"
            /\ UNCHANGED <<chunks, ip, exit_code, stmts, base, resolved>>
       ELSE /\ chunks' = cc.chunk
            /\ stmts' = cc.stmts
            /\ resolved' = cc.resolved
            /\ compile_result' = compile_returns(cc)
            /\ IF compile_returns(cc) = "Err"
               THEN /\ Returned("Err")
                    /\ UNCHANGED <<ip, base>>
               ELSE /\ mode' = "running"
                    /\ interpret_result' = "pending"
                    /\ ip' = 0
                    /\ base' = Len(stack)
                    /\ UNCHANGED exit_code

interpret(src) ==
    interpret_compiled(src, compile(src, [heap |-> heap, objs |-> objs, strings |-> strings]))

\* repl: a line was read
ReplLine(src) ==
    /\ driver = "repl"
    /\ mode = "idle"
    /\ calls < MaxCalls
    /\ interpret(src)

\* repl: read_line returned Ok(0)
ReplEof ==
    /\ driver = "repl"
    /\ mode = "idle"
    /\ mode' = "exited"
    /\ exit_code' = 0
    /\ UNCHANGED <<stack, heap, objs, strings, globals, chunks, ip, had_error, diag,
                   compile_result, result, interpret_result, out, driver, calls,
                   stmts, base, resolved, sources, probe>>

RunFile(src) ==
    /\ driver = "file"
    /\ mode = "idle"
    /\ calls = 0
    /\ interpret(src)

VMState == [stack |-> stack,
            h |-> [heap |-> heap, objs |-> objs, strings |-> strings],
            globals |-> globals, out |-> out]

\* the VM after an instruction with outcome r, and the return of interpret
\* when the instruction ends the run with `status`
Executed(r, status) ==
    /\ stack' = r.vm.stack
    /\ heap' = r.vm.h.heap
    /\ objs' = r.vm.h.objs
    /\ strings' = r.vm.h.strings
    /\ globals' = r.vm.globals
    /\ out' = r.vm.out
    /\ ip' = r.ip
    /\ CASE status = "continue" ->
              UNCHANGED <<mode, result, interpret_result, exit_code>>
         [] status = "panic" ->
              /\ mode' = "panicked"
              /\ UNCHANGED <<result, interpret_result, exit_code>>
         [] OTHER ->
              /\ result' = status
              /\ Returned(interpret_returns(status))

Ran(r) == Executed(r, run_status(chunks, r))

\* run(): one instruction
Step ==
    /\ mode = "running"
    /\ Len(stack) <= MaxStack
    /\ Ran(run_step(VMState, chunks, ip))
    /\ UNCHANGED <<chunks, had_error, diag, compile_result, driver, calls, stmts, base,
                   resolved, sources, probe>>

Next ==
    \/ \E src \in Programs : ReplLine(src)
    \/ \E src \in Programs : RunFile(src)
    \/ ReplEof
    \/ Step

Spec == Init /\ [][Next]_vars

(***************************************************************************)
(* Single calls.  A function of the compiler, the chunk, the scanner or    *)
(* the instruction pointer is called once on an argument drawn from the    *)
(* states a compilation can hand it; probe keeps the argument and, once    *)
(* the call is done, what it returned.  main does not run meanwhile.       *)
(***************************************************************************)
MaxProbeLocals == 3
MaxProbeDepth == 2

Call(fn, arg) == [fn |-> fn, arg |-> arg, done |-> FALSE, ret |-> arg]

Called(fn) == probe.fn = fn /\ ~probe.done

\* the call on arg returned ret
Return(arg, ret) ==
    /\ probe' = [probe EXCEPT !.arg = arg, !.done = TRUE, !.ret = ret]
    /\ UNCHANGED <<stack, heap, objs, strings, globals, chunks, ip, mode, had_error, diag,
                   compile_result, result, interpret_result, out, driver, exit_code,
                   calls, stmts, base, resolved, sources>>

\* a compiler in the middle of a pass: the token `previous` was just consumed
Compiler_at(locals, scope_depth, previous, panic_mode) ==
    [Compiler_new("", [heap |-> <<>>, objs |-> <<>>, strings |-> {}]) EXCEPT
        !.locals = locals, !.scope_depth = scope_depth, !.previous = previous,
        !.current = Token("SemiColon", ";", 1), !.panic_mode = panic_mode,
        !.had_error = panic_mode]

\* the locals a pass can hold at scope_depth: depths 1..scope_depth in
\* declaration order, no name twice at one depth
LocalsAt(scope_depth) ==
    {ls \in UNION {[1..n -> [name : {"a", "b"}, depth : 1..scope_depth]] :
                      n \in 0..MaxProbeLocals} :
        \A i, j \in DOMAIN ls :
            i < j => /\ ls[i].depth <= ls[j].depth
                     /\ ls[i].depth = ls[j].depth => ls[i].name # ls[j].name}

DeclareVariableCalls ==
    UNION {{Call("declare_variable", Compiler_at(ls, d, Token("Identifer", n, 1), pm)) :
                ls \in LocalsAt(d), n \in {"a", "b"}, pm \in BOOLEAN} :
           d \in 0..MaxProbeDepth}

DeclareVariable ==
    /\ Called("declare_variable")
    /\ Return(probe.arg, declare_variable(probe.arg))

\* `{ var a; { var a; { var a; ...`: every call is made one scope deeper, on
\* the compiler the call before it left, until the parser has an error
\* end_scope() in a scope, on the locals a pass can hold there
EndScopeCalls ==
    UNION {{Call("end_scope", Compiler_at(ls, d, Token("RightBrace", "}", 1), pm)) :
                ls \in LocalsAt(d), pm \in BOOLEAN} :
           d \in 1..MaxProbeDepth}

EndScope ==
    /\ Called("end_scope")
    /\ Return(probe.arg, end_scope(probe.arg))

AddLocalCalls == {Call("add_local", Compiler_at(<<>>, 0, Token("Identifer", "a", 1), FALSE))}

AddLocal ==
    /\ probe.fn = "add_local"
    /\ ~probe.ret.had_error
    /\ Let(begin_scope(probe.ret), LAMBDA cc : Return(cc, add_local(cc, cc.previous.lexeme)))

\* one chunk receives constant after constant, 0, 1, 2, ..., until add fails
ChunkAddCalls ==
    {[fn |-> "Chunk_add", arg |-> [chunk |-> Chunk_default, val |-> Nil], done |-> FALSE,
      ret |-> [chunk |-> Chunk_default, ok |-> TRUE, index |-> 0]]}

ChunkAdd ==
    /\ probe.fn = "Chunk_add"
    /\ probe.ret.ok
    /\ Let([chunk |-> probe.ret.chunk, val |-> Number(Len(probe.ret.chunk.constants), 1)],
           LAMBDA arg : Return(arg, Chunk_add(arg.chunk, arg.val)))

\* the distances jumped: every one up to 520 (two changes of the high
\* byte), one with two different non-zero bytes, and those around u16::MAX
ProbeDistances == 0..520 \cup {4660, 65534, 65535, 65536, 65537}

\* a compiler whose chunk holds len bytes of code (Pop), a two-byte jump
\* placeholder at jump_at
Compiler_with_code(len, jump_at) ==
    [Compiler_at(<<>>, 0, Token("SemiColon", ";", 1), FALSE) EXCEPT
        !.chunk.code = [i \in 1..len |-> IF i \in {jump_at + 1, jump_at + 2}
                                          THEN 255 ELSE Op_Pop],
        !.chunk.lines = <<<<0, 1>>>>]

\* what a call left in the chunk: the two operand bytes at `at`, the length
\* of the code, and the diagnostics
Emitted(cc, at) ==
    [bytes |-> SubSeq(cc.chunk.code, at + 1, at + 2), len |-> Len(cc.chunk.code),
     diag |-> cc.diag]

\* patch_jump(offset) with the placeholder at offset 1 or 4 and d bytes after it
PatchJumpCalls ==
    {Call("patch_jump", [len |-> offset + 2 + d, offset |-> offset]) :
        d \in ProbeDistances, offset \in {1, 4}}

PatchJump ==
    /\ Called("patch_jump")
    /\ Return(probe.arg,
              Emitted(patch_jump(Compiler_with_code(probe.arg.len, probe.arg.offset),
                                 probe.arg.offset),
                      probe.arg.offset))

\* emit_jump(instruction) after `before` bytes of code, then `between` bytes
\* of code, then patch_jump of the offset emit_jump returned
EmitJumpCalls ==
    {Call("emit_jump", [before |-> before, between |-> d, instruction |-> op]) :
        before \in {1, 3}, d \in ProbeDistances, op \in {Op_Jump, Op_JumpIfFalse}}

\* the offset emit_jump returned, the bytes patch_jump changed and what it
\* left at the operand
Patched(offset, c1, c2) ==
    Emitted(c2, offset) @@
    [offset |-> offset, len_before |-> Len(c1.chunk.code),
     opcode |-> c1.chunk.code[offset],
     changed |-> {i \in 1..Len(c1.chunk.code) :
                     i > Len(c2.chunk.code) \/ c2.chunk.code[i] # c1.chunk.code[i]}]

EmitJump ==
    /\ Called("emit_jump")
    /\ Let(emit_jump(Compiler_with_code(probe.arg.before, probe.arg.before),
                     probe.arg.instruction), LAMBDA j :
           Let([j.cc EXCEPT !.chunk.code = @ \o [i \in 1..probe.arg.between |-> Op_Pop]],
               LAMBDA c1 : Return(probe.arg, Patched(j.offset, c1, patch_jump(c1, j.offset)))))

\* emit_loop(loop_start) with loop_start 0 or 3, the Loop opcode written
\* d - 3 bytes after loop_start
EmitLoopCalls ==
    {Call("emit_loop", [len |-> loop_start + d - 3, loop_start |-> loop_start]) :
        d \in ProbeDistances \ 0..2, loop_start \in {0, 3}}

EmitLoop ==
    /\ Called("emit_loop")
    /\ Return(probe.arg,
              Emitted(emit_loop(Compiler_with_code(probe.arg.len, probe.arg.len),
                                probe.arg.loop_start),
                      probe.arg.len + 1))

\* the VM reads the operand a call wrote without an error
ReadShort ==
    /\ probe.fn \in {"patch_jump", "emit_loop"}
    /\ probe.done
    /\ probe.ret.diag = <<>>
    /\ probe' = [fn |-> "read_short",
                 arg |-> [wrote |-> probe.fn, bytes |-> probe.ret.bytes,
                          distance |-> IF probe.fn = "patch_jump"
                                       THEN probe.arg.len - probe.arg.offset - 2
                                       ELSE probe.arg.len + 1 - probe.arg.loop_start + 2],
                 done |-> TRUE,
                 ret |-> read_short([Chunk_default EXCEPT !.code = probe.ret.bytes], 0)]
    /\ UNCHANGED <<stack, heap, objs, strings, globals, chunks, ip, mode, had_error, diag,
                   compile_result, result, interpret_result, out, driver, exit_code,
                   calls, stmts, base, resolved, sources>>

\* run(): the loop, from pc to the instruction that ends it
RECURSIVE run(_, _, _)
run(vm, chunk, pc) ==
    Let(run_step(vm, chunk, pc), LAMBDA r :
        IF run_status(chunk, r) = "continue" THEN run(r.vm, chunk, r.ip)
        ELSE [vm |-> r.vm, status |-> run_status(chunk, r)])

\* interpret(src) on a new VM, from the compilation to the return of run()
interpret_new(src) ==
    Let(compile(src, [heap |-> <<>>, objs |-> <<>>, strings |-> {}]), LAMBDA cc :
        IF cc.dead THEN [status |-> "panic", out |-> <<>>, diag |-> cc.diag]
        ELSE Let(run([stack |-> <<>>, h |-> cc.h, globals |-> <<>>, out |-> <<>>],
                     cc.chunk, 0), LAMBDA r :
                 [status |-> r.status, out |-> r.vm.out, diag |-> cc.diag]))

(***************************************************************************)
(* Expressions: operands joined by binary operators.  An operand is a      *)
(* number literal n or, when sub is not NoSub, the parenthesised           *)
(* expression sub; neg puts a unary minus in front of it.                  *)
(***************************************************************************)
MaxOperands == 3

BinaryOps == {"+", "-", "*", "/", "<", ">", "<=", ">=", "==", "!="}

NoSub == [operands |-> <<>>, ops |-> <<>>]

\* the literal at position i of an expression
Literal(i) == [neg |-> FALSE, n |-> <<8, 3, 2, 5, 7>>[((i - 1) % 5) + 1], sub |-> NoSub]

Plain(ops) == [operands |-> [i \in 1..Len(ops) + 1 |-> Literal(i)], ops |-> ops]

Negated(e, i) == [e EXCEPT !.operands[i].neg = TRUE]

\* operands i and i + 1 and the operator between them, in parentheses
Grouped(e, i) ==
    [operands |-> SubSeq(e.operands, 1, i - 1)
                  \o <<[neg |-> FALSE, n |-> 0,
                        sub |-> [operands |-> SubSeq(e.operands, i, i + 1),
                                 ops |-> <<e.ops[i]>>]]>>
                  \o SubSeq(e.operands, i + 2, Len(e.operands)),
     ops |-> SubSeq(e.ops, 1, i - 1) \o SubSeq(e.ops, i + 1, Len(e.ops))]

Variants(e) ==
    {e} \cup {Negated(e, i) : i \in DOMAIN e.operands}
        \cup {Grouped(e, i) : i \in DOMAIN e.ops}
        \cup {Negated(Grouped(e, i), i) : i \in DOMAIN e.ops}

Expressions ==
    UNION {Variants(Plain(ops)) :
             ops \in UNION {[1..k -> BinaryOps] : k \in 0..MaxOperands - 1}}

\* the source text of an expression
RECURSIVE Render(_)
Render(e) ==
    Let(e.operands[Len(e.operands)], LAMBDA o :
        (IF Len(e.operands) = 1 THEN ""
         ELSE Render([operands |-> SubSeq(e.operands, 1, Len(e.operands) - 1),
                      ops |-> SubSeq(e.ops, 1, Len(e.ops) - 1)])
              \o " " \o e.ops[Len(e.ops)] \o " ")
        \o (IF o.neg THEN "-" ELSE "")
        \o (IF o.sub = NoSub THEN NatToStr(o.n) ELSE "(" \o Render(o.sub) \o ")"))

EvaluateCalls == {Call("interpret", e) : e \in Expressions}

\* `print <expression>;` is interpreted on a new VM
Evaluate ==
    /\ Called("interpret")
    /\ Return(probe.arg, interpret_new("print " \o Render(probe.arg) \o ";"))

\* texts that begin with a string literal or with an identifier
ScanSources ==
    { "\"\"", "\"a\"", "\"ab c\" + 1", "\"1\";", "\"\n\"", "\"a\nb\"", "\"", "\"a", "\"a\n",
      "a", "a1", "x_2y", "_a", "ab_c = 1;", "a1 = 2;", "x9;", "A_", "a+1" }

ScanTokenCalls == {Call("scan_token", src) : src \in ScanSources}

\* the first token of the text
ScanToken ==
    /\ Called("scan_token")
    /\ Return(probe.arg, scan_token(Scanner_new(probe.arg)).tok)

\* texts that begin with a number
NumberSources == {"7", "1.", "1.x", "1.5", "12.34", "1..2", "1.5.6", "12.;", "0.5x", "3 . 4"}

ScanTwiceCalls == {Call("scan_twice", src) : src \in NumberSources}

\* the first two tokens of the text
ScanTwice ==
    /\ Called("scan_twice")
    /\ Let(scan_token(Scanner_new(probe.arg)), LAMBDA r :
           Return(probe.arg, [first |-> r.tok, second |-> scan_token(r.s).tok]))

(***************************************************************************)
(* One iteration of run() on a VM whose heap holds the interned strings    *)
(* "a" and "b" and whose chunk names them as constants 0 and 1.            *)
(***************************************************************************)
NamesHeap == [heap |-> <<"a", "b">>, objs |-> <<1, 2>>, strings |-> {1, 2}]

VM_with(values, table) == [stack |-> values, h |-> NamesHeap, globals |-> table, out |-> <<>>]

Chunk_of(code) ==
    [Chunk_default EXCEPT !.code = code, !.constants = <<String(1), String(2)>>,
                          !.lines = <<<<0, 1>>>>]

\* the tables globals can be with the names a and b
GlobalTables ==
    UNION {[names -> {Number(1, 1), Nil}] : names \in SUBSET {"a", "b"}}

\* GetGlobal, SetGlobal and DefineGlobal naming a or b, with one or two
\* values on the stack
GlobalSteps ==
    {Call("run_step", [vm |-> VM_with(values, table), chunk |-> Chunk_of(<<op, name>>),
                       ip |-> 0]) :
        op \in {Op_GetGlobal, Op_SetGlobal, Op_DefineGlobal}, name \in {0, 1},
        table \in GlobalTables,
        values \in {<<Number(2, 1)>>, <<Nil, Bool(TRUE)>>}}

\* a heap that holds the interned strings a, b, ab and a1
SumsHeap == [heap |-> <<"a", "b", "ab", "a1">>, objs |-> <<1, 2, 3, 4>>,
             strings |-> {1, 2, 3, 4}]

\* the operands of Addition: the strings a and b, 1, 1.5, nil and true
Operands == {String(1), String(2), Number(1, 1), Number(3, 2), Nil, Bool(TRUE)}

\* Addition with val1 under val2 on the stack, over nil or over nothing
AdditionSteps ==
    {Call("run_step", [vm |-> [VM_with(under \o <<val1, val2>>, <<>>) EXCEPT !.h = SumsHeap],
                       chunk |-> Chunk_of(<<Op_Addition>>), ip |-> 0]) :
        val1 \in Operands, val2 \in Operands, under \in {<<>>, <<Nil>>}}

\* SetLocal of slot 0, 1 or 2 and JumpIfFalse over one or no byte, on stacks
\* of one to three values with a truthy or a falsy top
StoreSteps ==
    {Call("run_step", [vm |-> VM_with(values, <<>>), chunk |-> Chunk_of(code), ip |-> 0]) :
        code \in {<<Op_SetLocal, 0>>, <<Op_SetLocal, 1>>, <<Op_SetLocal, 2>>,
                  <<Op_JumpIfFalse, 0, 1, Op_Pop, Op_Pop>>,
                  <<Op_JumpIfFalse, 0, 0, Op_Pop>>},
        values \in {<<Number(2, 1)>>, <<Nil>>, <<Nil, Bool(TRUE)>>,
                    <<Bool(TRUE), Number(1, 1), Bool(FALSE)>>}}

\* the operands of the binary operators: 0, 1, 1.5, -2, the string a, nil
\* and true
BinaryOperands ==
    {Number(0, 1), Number(1, 1), Number(3, 2), Number(-2, 1), String(1), Nil, Bool(TRUE)}

\* Subtract, Multiply, Divide, Greater and Less with val1 under val2 on the
\* stack, over nil or over nothing
BinarySteps ==
    {Call("run_step", [vm |-> VM_with(under \o <<val1, val2>>, <<>>),
                       chunk |-> Chunk_of(<<op>>), ip |-> 0]) :
        op \in {Op_Subtract, Op_Multiply, Op_Divide, Op_Greater, Op_Less},
        val1 \in BinaryOperands, val2 \in BinaryOperands, under \in {<<>>, <<Nil>>}}

RunStep ==
    /\ Called("run_step")
    /\ Return(probe.arg, run_step(probe.arg.vm, probe.arg.chunk, probe.arg.ip))

(***************************************************************************)
(* Programs with control flow, interpreted on a new VM.                    *)
(***************************************************************************)
\* the largest bound of a counting loop
MaxCount == 5

\* the sum of 0 .. limit - 1 and each i on the way
ForText(limit) ==
    "var n = 0; for (var i = 0; i < " \o NatToStr(limit)
        \o "; i = i + 1) { n = n + i; print i; } print n;"

\* conditions of an if: the text and whether its value is truthy
Conditions ==
    { [text |-> "true", truthy |-> TRUE], [text |-> "false", truthy |-> FALSE],
      [text |-> "nil", truthy |-> FALSE], [text |-> "0", truthy |-> TRUE],
      [text |-> "1 > 0", truthy |-> TRUE], [text |-> "1 > 2", truthy |-> FALSE],
      [text |-> "\"\"", truthy |-> TRUE], [text |-> "!nil", truthy |-> TRUE] }

IfText(cond, has_else) ==
    "if (" \o cond \o ") print 1;" \o (IF has_else THEN " else print 2;" ELSE "")
        \o " print 3;"

\* the conditions that are literals: print shows them as they are written
Literals == {c \in Conditions : c.text \in {"true", "false", "nil", "0"}}

LogicText(left, op, right) == "print " \o left \o " " \o op \o " " \o right \o ";"

ControlTexts ==
    {ForText(limit) : limit \in 0..MaxCount}
        \cup {IfText(c.text, e) : c \in Conditions, e \in BOOLEAN}
        \cup {LogicText(a.text, op, b.text) : a \in Literals, op \in {"and", "or"},
                                             b \in Literals}
        \cup {"print ; print 1;", "1 2 3 print 4;", "var a = ;", "var a = 1; a = ;"}

InterpretCalls == {Call("interpret_text", src) : src \in ControlTexts}

\* run() at offset pc of the chunk, after an instruction left `status`
Running(status, vm, chunk, pc, errors) ==
    [status |-> status, vm |-> vm, chunk |-> chunk, ip |-> pc, diag |-> errors]

\* interpret(src) on a new VM: the compilation, then run() is entered
Interpret ==
    /\ Called("interpret_text")
    /\ Let(compile(probe.arg, [heap |-> <<>>, objs |-> <<>>, strings |-> {}]), LAMBDA cc :
           probe' = [fn |-> "run", arg |-> probe.arg, done |-> cc.dead,
                     ret |-> Running(IF cc.dead THEN "panic" ELSE "continue",
                                     [stack |-> <<>>, h |-> cc.h, globals |-> <<>>,
                                      out |-> <<>>],
                                     cc.chunk, 0, cc.diag)])
    /\ UNCHANGED <<stack, heap, objs, strings, globals, chunks, ip, mode, had_error, diag,
                   compile_result, result, interpret_result, out, driver, exit_code,
                   calls, stmts, base, resolved, sources>>

\* one iteration of the loop of run()
RunOn ==
    /\ Called("run")
    /\ Let(run_step(probe.ret.vm, probe.ret.chunk, probe.ret.ip), LAMBDA r :
           probe' = [probe EXCEPT
                        !.done = run_status(probe.ret.chunk, r) # "continue",
                        !.ret = Running(run_status(probe.ret.chunk, r), r.vm,
                                        probe.ret.chunk, r.ip, probe.ret.diag)])
    /\ UNCHANGED <<stack, heap, objs, strings, globals, chunks, ip, mode, had_error, diag,
                   compile_result, result, interpret_result, out, driver, exit_code,
                   calls, stmts, base, resolved, sources>>

(***************************************************************************)
(* The rest of a compilation whose chunk already holds n constants: the    *)
(* loop of compile() from the first token of the text that is left.        *)
(***************************************************************************)
\* the numbers of constants the chunk holds when the text begins
PoolSizes == {0, 1, 254, 255, 256}

\* texts whose first statement adds a constant to the pool
PoolTexts ==
    { "a;", "a = 1;", "1;", "var a;", "var a = 1;", "print \"\";", "a; 1;", "1; a;",
      "var a = 1; print 2;", "{ var a; a; } b;", "{ a; }", "print 1 + 2;" }

SyncTexts ==
    { "1 2 print 3;", "; print 1;", "+ + ; var a;", "1 2", "a b ; c", "x y if (a) b;",
      "1 } while (a) b;", "print ; print 1;", "a b c for (;;) d;", "1 +; 2 * 3;",
      "a class b", "a b fun c", "a b c d return e;", ") ) ) ) var a;", "1 ; ; 2" }

\* texts with and without syntax errors, and with an unclosed block
DeclTexts ==
    SyncTexts \cup { "{ var a; a; } b;", "{ 1; ", "{ { 1", "var a = 1; print 2;",
                     "if (1) { 2; } else 3;", "while (1) 2;", "for (;;) 1;", "var ; 1;",
                     "{ var a; { var b; ", "for (var i = 0;;) { var j; 1 }",
                     "{ var a = 1; var a; } 1 }", "{ var a; { var b; var c; } var d; }" }

CompileOnCalls ==
    {Call("compile", [text |-> text, constants |-> n]) : text \in PoolTexts, n \in PoolSizes}
        \cup {Call("compile", [text |-> text, constants |-> 0]) : text \in DeclTexts}

\* Compiler::new and the first advance of compile(), on a chunk of n constants
Compiler_on(text, n) ==
    [Parser_advance(Compiler_new(text, [heap |-> <<>>, objs |-> <<>>, strings |-> {}]))
        EXCEPT !.chunk.constants = [i \in 1..n |-> Nil]]

\* compile() from its loop to its return
CompileOn ==
    /\ Called("compile")
    /\ Return(probe.arg,
              end_compiler(consume(compile_loop(Compiler_on(probe.arg.text,
                                                            probe.arg.constants)),
                                   "Eof", "Expected end of expression")))

\* the most bytes written to a chunk, and the greatest line of a byte
MaxWrites == 4

MaxLine == 3

\* write(byte, line) for every sequence of up to MaxWrites lines
WriteCalls ==
    {Call("Chunk_write", ls) : ls \in UNION {[1..n -> 1..MaxLine] : n \in 1..MaxWrites}}

\* the chunk after write(i - 1, lines[i]) for each i up to n
RECURSIVE Written(_, _)
Written(ls, n) ==
    IF n = 0 THEN Chunk_default ELSE Chunk_write(Written(ls, n - 1), n - 1, ls[n])

\* the writes, then get_line at every offset of the code
Write ==
    /\ Called("Chunk_write")
    /\ Let(Written(probe.arg, Len(probe.arg)), LAMBDA ch :
           Return(probe.arg, [chunk |-> ch,
                              line |-> [i \in 1..Len(ch.code) |-> get_line(ch, i - 1)]]))

\* error_at(msg) on a parser in or out of panic mode, with `;` or the end of
\* input as current token; in panic mode an error was reported before
ErrorAtCalls ==
    {Call("error_at",
          [cc |-> [Compiler_at(<<>>, 0, Token("Identifer", "a", 1), pm) EXCEPT
                      !.current = current,
                      !.diag = IF pm THEN <<[line |-> 1, msg |-> "Expect expression."]>>
                               ELSE <<>>],
           msg |-> msg]) :
        pm \in BOOLEAN, current \in {Token("SemiColon", ";", 1), EofToken(2)},
        msg \in {"Expect ';' after expression.", "Expect variable name"}}

ErrorAt ==
    /\ Called("error_at")
    /\ Return(probe.arg, error_at(probe.arg.cc, probe.arg.msg))

(***************************************************************************)
(* synchronize() after an error, the parser being `advanced` tokens into   *)
(* the text.                                                               *)
(***************************************************************************)
\* the most tokens of a text that were consumed when synchronize is called
MaxAdvanced == 3

SynchronizeCalls ==
    {Call("synchronize", [text |-> text, advanced |-> k]) :
        text \in SyncTexts, k \in 1..MaxAdvanced}

\* the parser after k calls of advance
RECURSIVE Advanced(_, _)
Advanced(cc, k) == IF k = 0 THEN cc ELSE Advanced(Parser_advance(cc), k - 1)

Synchronize ==
    /\ Called("synchronize")
    /\ Return(probe.arg,
              synchronize(Advanced(Compiler_new(probe.arg.text,
                                                [heap |-> <<>>, objs |-> <<>>,
                                                 strings |-> {}]),
                                   probe.arg.advanced + 1)))

\* declaraction() is called with the token number advanced + 1 of the text
\* as current, as the loops of compile() and block() call it: not at the end
\* of input
DeclaractionCalls ==
    {c \in {Call("declaraction", [text |-> text, advanced |-> k]) :
               text \in DeclTexts, k \in 0..MaxAdvanced} :
        Advanced(Compiler_new(c.arg.text, [heap |-> <<>>, objs |-> <<>>, strings |-> {}]),
                 c.arg.advanced + 1).current.ttype # "Eof"}

Declaraction ==
    /\ Called("declaraction")
    /\ Return(probe.arg,
              declaraction(Advanced(Compiler_new(probe.arg.text,
                                                 [heap |-> <<>>, objs |-> <<>>,
                                                  strings |-> {}]),
                                    probe.arg.advanced + 1)))

UnitInit ==
    /\ Started
    /\ \/ probe \in DeclareVariableCalls
       \/ probe \in AddLocalCalls
       \/ probe \in ChunkAddCalls
       \/ probe \in PatchJumpCalls
       \/ probe \in EmitLoopCalls
       \/ probe \in EvaluateCalls
       \/ probe \in ScanTokenCalls
       \/ probe \in ScanTwiceCalls
       \/ probe \in GlobalSteps
       \/ probe \in InterpretCalls
       \/ probe \in AdditionSteps
       \/ probe \in StoreSteps
       \/ probe \in EmitJumpCalls
       \/ probe \in CompileOnCalls
       \/ probe \in SynchronizeCalls
       \/ probe \in ErrorAtCalls
       \/ probe \in WriteCalls
       \/ probe \in BinarySteps
       \/ probe \in DeclaractionCalls
       \/ probe \in EndScopeCalls

UnitNext ==
    \/ DeclareVariable
    \/ AddLocal
    \/ ChunkAdd
    \/ PatchJump
    \/ EmitLoop
    \/ ReadShort
    \/ Evaluate
    \/ ScanToken
    \/ ScanTwice
    \/ RunStep
    \/ Interpret
    \/ RunOn
    \/ EmitJump
    \/ CompileOn
    \/ Synchronize
    \/ ErrorAt
    \/ Write
    \/ Declaraction
    \/ EndScope

UnitSpec == UnitInit /\ [][UnitNext]_vars

(***************************************************************************)
(* Properties.                                                             *)
(***************************************************************************)
\* the String values the VM holds: on the stack, in globals and in the
\* constant pool of the installed chunk
StringValues ==
    {v \in {stack[i] : i \in DOMAIN stack}
           \cup {globals[k] : k \in DOMAIN globals}
           \cup {chunks.constants[i] : i \in DOMAIN chunks.constants} :
        v.t = "String"}

\* the text of the interpret call in progress or last finished
source == IF calls = 0 THEN "" ELSE sources[calls]

\* C1: Compiler::compile returns success if and only if had_error is false
\* at the end of the pass; a reported compile error makes it return failure.
C1_CompileFailsOnError ==
    compile_result # "none" => (compile_result = "Ok" <=> ~had_error)

\* C2: when the compile of an interpret call reported an error, run() is not
\* entered, the call does not return success, and the stack and the globals
\* stay as they were before the call.
C2_NoRunAfterCompileError ==
    [][had_error' =>
          /\ mode' # "running"
          /\ interpret_result' # "Ok"
          /\ stack' = stack
          /\ globals' = globals]_vars

\* C3: when run() returned a runtime error, interpret returns an error to
\* the driver, and in file mode the process exits with a failure status.
C3_RuntimeErrorReturned ==
    result = "Err" =>
        /\ interpret_result = "Err"
        /\ driver = "file" => exit_code # 0

\* C4: once run() has returned a runtime error no further instruction of the
\* chunk executes: until the next interpret call the stack, the output, the
\* globals and the instruction pointer do not change; and the next interpret
\* call is compiled and its chunk is run from its first instruction (unless
\* the compiler thread itself panics).
C4_RuntimeErrorHalts ==
    [][result = "Err" =>
          IF calls' = calls
          THEN /\ stack' = stack
               /\ out' = out
               /\ globals' = globals
               /\ ip' = ip
               /\ mode' # "running"
          ELSE \/ mode' = "panicked"
               \/ /\ compile_result' = "Ok"
                  /\ mode' = "running"
                  /\ ip' = 0
                  /\ result' = "none"]_vars

\* C4 witness: the first call raised a type error in Negate and neither
\* defined d nor printed 4; the second call on the same VM was compiled, ran
\* and printed.
C4_Witness ==
    /\ sources = <<"print -nil; var d = 1; print 4;", "print 1 + 2 * 3;">>
    /\ result = "Ok"
    /\ globals = <<>>
    /\ out = <<"7">>

\* C5: an entry of globals is never removed, and its value changes only when
\* run() executes a DefineGlobal or SetGlobal whose operand names it; an
\* interpret call leaves globals as it found them.
C5_GlobalsPersist ==
    [][/\ \A k \in DOMAIN globals :
              /\ k \in DOMAIN globals'
              /\ globals'[k] # globals[k] =>
                    /\ mode = "running"
                    /\ chunks.code[ip + 1] \in {Op_DefineGlobal, Op_SetGlobal}
                    /\ heap[chunks.constants[chunks.code[ip + 2] + 1].ref] = k
       /\ calls' # calls => globals' = globals]_vars

\* C5 witness: a global defined by the first call holds its value after the
\* second call has run.
C5_Witness ==
    /\ sources = <<"var a = 1;", "print 1 + 2 * 3;">>
    /\ result = "Ok"
    /\ "a" \in DOMAIN globals
    /\ globals["a"] = Number(1, 1)

\* C6: the intern table holds one entry per distinct content, and two
\* String values the VM holds compare equal if and only if their contents
\* are equal.
C6_InternOnePerContent ==
    /\ \A a, b \in strings : heap[a] = heap[b] => a = b
    /\ \A v, w \in StringValues : Value_eq(v, w) <=> heap[v.ref] = heap[w.ref]

\* C6 witness: two concatenations at run time produced the same content, the
\* second create_string found the entry of the first, and both values are on
\* the stack.
C6_Witness ==
    /\ Len(stack) = 2
    /\ stack[1].t = "String"
    /\ stack[2].t = "String"
    /\ stack[1].ref = stack[2].ref
    /\ heap[stack[1].ref] = "1"

\* C7: no step removes an entry of the intern table, and after every step
\* each String value on the stack, in globals or in the constant pool refers
\* to an entry of the table.
C7_InternEntriesKept ==
    [][/\ strings \subseteq strings'
       /\ \A v \in StringValues' : v.ref \in strings']_vars

\* C7 witness: the second interpret call holds, in its constant pool, a
\* String that refers to the entry the first call created.
C7_Witness ==
    /\ sources = <<"var a = 1;", "var a = 1;">>
    /\ heap = <<"a">>
    /\ chunks.constants[1] = String(1)
    /\ 1 \in strings

reported(cc) == {cc.diag[i].msg : i \in DOMAIN cc.diag}

\* C11: at scope depth >= 1 declare_variable reports DuplicateName exactly
\* when a local of the current scope depth has the name just consumed (the
\* report being printed unless the parser is in panic mode); a local of that
\* name in an enclosing scope does not count; on the error no local is
\* added, otherwise the new local is pushed at the current depth.
C11_DuplicateNameSameScope ==
    (probe.fn = "declare_variable" /\ probe.done /\ probe.arg.scope_depth >= 1) =>
        LET cc == probe.arg
            name == probe.arg.previous.lexeme
            dup == \E i \in DOMAIN probe.arg.locals :
                      /\ probe.arg.locals[i].depth = probe.arg.scope_depth
                      /\ probe.arg.locals[i].name = probe.arg.previous.lexeme
        IN /\ ~cc.panic_mode =>
                ("Already a variable in scope with this name." \in reported(probe.ret)
                     <=> dup)
           /\ cc.panic_mode => probe.ret.diag = cc.diag
           /\ dup => probe.ret.locals = cc.locals
           /\ ~dup => probe.ret.locals = Append(cc.locals, Local_new(name, cc.scope_depth))

\* `var a` at depth 2 with an `a` at depth 1 and an `a` at depth 2: reported
C11_Witness ==
    /\ probe.fn = "declare_variable" /\ probe.done
    /\ probe.arg.scope_depth = 2
    /\ probe.arg.previous.lexeme = "a"
    /\ probe.arg.locals = <<Local_new("a", 1), Local_new("a", 2)>>
    /\ ~probe.arg.panic_mode
    /\ probe.ret.diag = <<[line |-> 1, msg |-> "Already a variable in scope with this name."]>>
    /\ probe.ret.locals = probe.arg.locals

\* C12: locals never holds more than 256 entries: add_local on fewer than
\* 256 locals (the 256th included) pushes the local without an error, and
\* add_local on 256 locals reports TooManyLocals and leaves locals as it was.
C12_AtMost256Locals ==
    probe.fn = "add_local" =>
        /\ Len(probe.ret.locals) <= 256
        /\ probe.done =>
              IF Len(probe.arg.locals) < 256
              THEN /\ probe.ret.locals =
                         Append(probe.arg.locals, Local_new("a", probe.arg.scope_depth))
                   /\ ~probe.ret.had_error
              ELSE /\ probe.ret.locals = probe.arg.locals
                   /\ probe.ret.diag =
                         <<[line |-> 1, msg |-> "Too many local variables in function"]>>

\* the 257th declaration, with 256 locals in scope
C12_Witness ==
    /\ probe.fn = "add_local" /\ probe.done
    /\ Len(probe.arg.locals) = 256
    /\ Len(probe.ret.locals) = 256
    /\ probe.ret.had_error

\* C13: Chunk::add fails exactly when the pool already holds 256 constants
\* and then leaves the chunk as it was; otherwise it appends the value and
\* returns its position in the pool, a number in 0..255.
C13_AddFailsAt256 ==
    (probe.fn = "Chunk_add" /\ probe.done) =>
        /\ probe.ret.ok <=> Len(probe.arg.chunk.constants) # 256
        /\ Len(probe.arg.chunk.constants) <= 256
        /\ IF probe.ret.ok
           THEN /\ probe.ret.chunk.constants = Append(probe.arg.chunk.constants, probe.arg.val)
                /\ probe.ret.index \in 0..255
                /\ probe.ret.chunk.constants[probe.ret.index + 1] = probe.arg.val
                /\ probe.ret.index = Len(probe.arg.chunk.constants)
           ELSE probe.ret.chunk = probe.arg.chunk

\* the 257th constant is refused
C13_Witness ==
    /\ probe.fn = "Chunk_add" /\ probe.done
    /\ Len(probe.arg.chunk.constants) = 256
    /\ ~probe.ret.ok
    /\ Len(probe.ret.chunk.constants) = 256

\* C14: patch_jump reports TooMuchToJump exactly when code.len - offset - 2
\* exceeds 65535, and emit_loop reports TooFarToLoop exactly when code.len -
\* loop_start + 2 (code.len taken after the Loop opcode is written) exceeds
\* 65535; a distance up to 65535 is written as its high byte and its low
\* byte, without an error.
C14_JumpLimits ==
    /\ (probe.fn = "patch_jump" /\ probe.done) =>
          LET jump == probe.arg.len - probe.arg.offset - 2 IN
          IF jump > 65535
          THEN probe.ret.diag = <<[line |-> 1, msg |-> "TooMuchToJump"]>>
          ELSE /\ probe.ret.diag = <<>>
               /\ probe.ret.bytes = <<jump \div 256, jump % 256>>
    /\ (probe.fn = "emit_loop" /\ probe.done) =>
          LET offset == (probe.arg.len + 1) - probe.arg.loop_start + 2 IN
          IF offset > 65535
          THEN probe.ret.diag = <<[line |-> 1, msg |-> "TooFarToLoop"]>>
          ELSE /\ probe.ret.diag = <<>>
               /\ probe.ret.bytes = <<offset \div 256, offset % 256>>
               /\ probe.ret.len = probe.arg.len + 3

\* the largest forward jump that is accepted
C14_Witness ==
    /\ probe.fn = "patch_jump" /\ probe.done
    /\ probe.arg.len - probe.arg.offset - 2 = 65535
    /\ probe.ret.diag = <<>>
    /\ probe.ret.bytes = <<255, 255>>

\* C15: read_short on the two operand bytes that patch_jump or emit_loop
\* wrote for a distance d in 0..65535 returns d.
C15_ReadShortInvertsEncode ==
    probe.fn = "read_short" => (probe.ret.ok /\ probe.ret.value = probe.arg.distance)

\* the bytes of the installed chunk
code_bytes == {chunks.code[i] : i \in DOMAIN chunks.code}

RefPrecedence(op) ==
    CASE op \in {"==", "!="} -> 1
      [] op \in {"<", ">", "<=", ">="} -> 2
      [] op \in {"+", "-"} -> 3
      [] op \in {"*", "/"} -> 4

RefRoot(ops) ==
    CHOOSE i \in DOMAIN ops :
        \A j \in DOMAIN ops :
            \/ RefPrecedence(ops[i]) < RefPrecedence(ops[j])
            \/ RefPrecedence(ops[i]) = RefPrecedence(ops[j]) /\ j <= i

RefFail == [ok |-> FALSE, v |-> Nil]

RefValue(v) == [ok |-> TRUE, v |-> v]

RefApply(op, a, b) ==
    IF ~a.ok \/ ~b.ok THEN RefFail
    ELSE IF op = "==" THEN RefValue(Bool(Value_eq(a.v, b.v)))
    ELSE IF op = "!=" THEN RefValue(Bool(~Value_eq(a.v, b.v)))
    ELSE IF a.v.t # "Number" \/ b.v.t # "Number" THEN RefFail
    ELSE CASE op = "+" -> RefValue(f64_add(a.v, b.v))
           [] op = "-" -> RefValue(f64_sub(a.v, b.v))
           [] op = "*" -> RefValue(f64_mul(a.v, b.v))
           [] op = "/" -> RefValue(f64_div(a.v, b.v))
           [] op = "<" -> RefValue(Bool(f64_lt(a.v, b.v)))
           [] op = ">" -> RefValue(Bool(f64_gt(a.v, b.v)))
           [] op = "<=" -> RefValue(Bool(f64_lt(a.v, b.v) \/ f64_eq(a.v, b.v)))
           [] op = ">=" -> RefValue(Bool(f64_gt(a.v, b.v) \/ f64_eq(a.v, b.v)))

RefNegate(neg, a) ==
    IF ~neg THEN a
    ELSE IF ~a.ok \/ a.v.t # "Number" THEN RefFail
    ELSE RefValue(f64_neg(a.v))

RECURSIVE RefEval(_)
RefEval(e) ==
    IF Len(e.operands) = 1
    THEN Let(e.operands[1], LAMBDA o :
             RefNegate(o.neg, IF o.sub = NoSub THEN RefValue(Number(o.n, 1))
                              ELSE RefEval(o.sub)))
    ELSE Let(RefRoot(e.ops), LAMBDA i :
             RefApply(e.ops[i],
                      RefEval([operands |-> SubSeq(e.operands, 1, i),
                               ops |-> SubSeq(e.ops, 1, i - 1)]),
                      RefEval([operands |-> SubSeq(e.operands, i + 1, Len(e.operands)),
                               ops |-> SubSeq(e.ops, i + 1, Len(e.ops))])))

\* what `print e;` does when e has the reference value r
RefPrinted(r) ==
    IF r.ok THEN [status |-> "Ok", out |-> <<Value_to_string(<<>>, r.v)>>, diag |-> <<>>]
    ELSE [status |-> "Err", out |-> <<>>, diag |-> <<>>]

\* C17: for an expression of number literals, unary minus, grouping and the
\* binary operators + - * / < > <= >= == !=, the compiled code computes the
\* value of the reference evaluator (* / before + -, those before the
\* comparisons, those before the equalities, equal precedence from left to
\* right), or fails when the reference evaluator has no value.
C17_PrecedenceAndAssociativity ==
    (probe.fn = "interpret" /\ probe.done) => probe.ret = RefPrinted(RefEval(probe.arg))

\* 8 - 3 - 2 is 3
C17_Witness ==
    /\ probe.fn = "interpret" /\ probe.done
    /\ Render(probe.arg) = "8 - 3 - 2"
    /\ probe.ret.out = <<"3">>

\* C18: one pass reports independent errors: after synchronize() returned
\* the parser is out of panic mode, so the second `print ;` of
\* `print ; print ;` is reported like the first.
C18_LaterErrorsReported ==
    source = "print ; print ;" =>
        diag = <<[line |-> 1, msg |-> "Parse Error. Expected expression."],
                 [line |-> 1, msg |-> "Parse Error. Expected expression."]>>

\* C19: a text that opens a string literal and has a closing quote scans
\* to one String token, from the opening quote to the first closing quote,
\* whatever lies between; the UnterminatedString error token is produced
\* only when the text ends before a closing quote.
C19_StringLiteralAnyContent ==
    (probe.fn = "scan_token" /\ probe.done /\ CharAt(probe.arg, 1) = "\"") =>
        LET closing == {j \in 2..Len(probe.arg) : CharAt(probe.arg, j) = "\""} IN
        IF closing # {}
        THEN /\ probe.ret.ttype = "String"
             /\ probe.ret.lexeme =
                   SubSeq(probe.arg, 1, CHOOSE j \in closing : \A k \in closing : j <= k)
        ELSE probe.ret.ttype = "UnterminatedStringError"

\* the letters, digits and underscores a text begins with
RECURSIVE Word(_, _)
Word(src, n) ==
    IF n < Len(src) /\ (is_identifier(CharAt(src, n + 1)) \/ is_digit(CharAt(src, n + 1)))
    THEN Word(src, n + 1)
    ELSE SubSeq(src, 1, n)

\* C20: a text that begins with a letter or an underscore scans to one
\* Identifier token that extends over every directly following letter,
\* digit or underscore (`a1`, `x_2y`).
C20_IdentifierHoldsDigits ==
    (probe.fn = "scan_token" /\ probe.done /\ is_identifier(CharAt(probe.arg, 1))) =>
        /\ probe.ret.ttype = "Identifer"
        /\ probe.ret.lexeme = Word(probe.arg, 0)

\* the digits a text has from position n + 1 on
RECURSIVE Digits(_, _)
Digits(src, n) ==
    IF n < Len(src) /\ is_digit(CharAt(src, n + 1))
    THEN CharAt(src, n + 1) \o Digits(src, n + 1)
    ELSE ""

\* C21: a number token is the leading digits of the text, followed by a '.'
\* and the digits after it only when a digit directly follows the '.';
\* otherwise the '.' is left and is the next token (`1.`, `1.x`).
C21_NumberLeavesTrailingDot ==
    (probe.fn = "scan_twice" /\ probe.done) =>
        LET whole == Digits(probe.arg, 0)
            frac == Digits(probe.arg, Len(Digits(probe.arg, 0)) + 1)
            dot == /\ Len(Digits(probe.arg, 0)) < Len(probe.arg)
                   /\ CharAt(probe.arg, Len(Digits(probe.arg, 0)) + 1) = "."
        IN /\ probe.ret.first.ttype = "Number"
           /\ IF dot /\ frac # ""
              THEN probe.ret.first.lexeme = whole \o "." \o frac
              ELSE /\ probe.ret.first.lexeme = whole
                   /\ dot => probe.ret.second = Token("Dot", ".", 1)

\* `1.x`: the number 1, then the '.'
C21_Witness ==
    /\ probe.fn = "scan_twice" /\ probe.done
    /\ probe.arg = "1.x"
    /\ probe.ret.first = Token("Number", "1", 1)
    /\ probe.ret.second = Token("Dot", ".", 1)

\* the instruction a run_step call executed and the global it names
stepped(op) == probe.fn = "run_step" /\ probe.done /\ probe.arg.chunk.code[probe.arg.ip + 1] = op

step_name == probe.arg.vm.h.heap[probe.arg.chunk.constants[probe.arg.chunk.code[probe.arg.ip + 2] + 1].ref]

\* C22: GetGlobal and SetGlobal of a name that is not a key of globals end
\* the run with the runtime error, and neither ever adds a key to globals;
\* DefineGlobal is the instruction that creates one.
C22_OnlyDefineCreatesGlobal ==
    /\ (stepped(Op_GetGlobal) \/ stepped(Op_SetGlobal)) =>
          /\ step_name \notin DOMAIN probe.arg.vm.globals =>
                (probe.ret.status = "Err" /\ probe.ret.vm = probe.arg.vm)
          /\ step_name \in DOMAIN probe.arg.vm.globals => probe.ret.status = "continue"
          /\ DOMAIN probe.ret.vm.globals = DOMAIN probe.arg.vm.globals
    /\ stepped(Op_DefineGlobal) =>
          DOMAIN probe.ret.vm.globals = DOMAIN probe.arg.vm.globals \cup {step_name}

\* SetGlobal b with only a defined
C22_Witness ==
    /\ stepped(Op_SetGlobal)
    /\ step_name = "b"
    /\ DOMAIN probe.arg.vm.globals = {"a"}
    /\ probe.ret.status = "Err"
    /\ DOMAIN probe.ret.vm.globals = {"a"}

\* what the counting loop prints when INIT runs once and each iteration is
\* COND, BODY, INCR: every i below the bound, then their sum
RECURSIVE Counted(_, _, _)
Counted(i, limit, sum) ==
    IF i >= limit THEN <<NatToStr(sum)>>
    ELSE <<NatToStr(i)>> \o Counted(i + 1, limit, sum + i)

\* the sequence head begins the sequence whole
begins(head, whole) == Len(head) <= Len(whole) /\ head = SubSeq(whole, 1, Len(head))

C24_IfRunsOneBranch ==
    \A c \in Conditions, has_else \in BOOLEAN :
        (probe.fn = "run" /\ probe.done /\ probe.arg = IfText(c.text, has_else)) =>
            /\ probe.ret.status = "Ok"
            /\ probe.ret.diag = <<>>
            /\ probe.ret.vm.out = (IF c.truthy THEN <<"1">>
                                    ELSE IF has_else THEN <<"2">> ELSE <<>>) \o <<"3">>
            /\ probe.ret.vm.stack = <<>>

\* a falsy condition runs the else branch only
C24_Witness ==
    /\ probe.fn = "run" /\ probe.done
    /\ probe.arg = IfText("1 > 2", TRUE)
    /\ probe.ret.vm.out = <<"2", "3">>
    /\ probe.ret.vm.stack = <<>>

\* C25: `print a and b;` prints a when a is falsy and b otherwise,
\* `print a or b;` prints a when a is truthy and b otherwise, and one value
\* only was on the stack for print: the run ends without an error and with
\* an empty stack.
C25_ShortCircuit ==
    \A a \in Literals, b \in Literals, op \in {"and", "or"} :
        (probe.fn = "run" /\ probe.done /\ probe.arg = LogicText(a.text, op, b.text)) =>
            /\ probe.ret.status = "Ok"
            /\ probe.ret.vm.out = <<IF a.truthy = (op = "and") THEN b.text ELSE a.text>>
            /\ probe.ret.vm.stack = <<>>

\* the operands of the instruction of the step: val1 under val2, and the
\* stack under them
step_val1 == probe.arg.vm.stack[Len(probe.arg.vm.stack) - 1]

step_val2 == probe.arg.vm.stack[Len(probe.arg.vm.stack)]

step_under == SubSeq(probe.arg.vm.stack, 1, Len(probe.arg.vm.stack) - 2)

\* the text a string or a number contributes to a concatenation
text_of(v) == IF v.t = "String" THEN probe.arg.vm.h.heap[v.ref] ELSE f64_to_string(v)

\* the stack after the step is the stack under the operands and one
\* interned string of that content: the only entry of strings with it, so
\* that a literal of the same content is the same object
pushed_string(str) ==
    /\ probe.ret.status = "continue"
    /\ Len(probe.ret.vm.stack) = Len(step_under) + 1
    /\ SubSeq(probe.ret.vm.stack, 1, Len(step_under)) = step_under
    /\ Let(probe.ret.vm.stack[Len(probe.ret.vm.stack)], LAMBDA top :
           /\ top.t = "String"
           /\ probe.ret.vm.h.heap[top.ref] = str
           /\ strings_get(probe.ret.vm.h, str) = {top.ref}
           /\ Value_eq(top, String(create_string(probe.ret.vm.h, str).ref)))

\* C26: Addition pushes the sum of two numbers; for string + string,
\* string + number and number + string it pushes the interned
\* concatenation (left operand first), equal to a literal of that content;
\* for every other pair of operands it is a runtime error.
C26_Addition ==
    stepped(Op_Addition) =>
        IF step_val1.t = "Number" /\ step_val2.t = "Number"
        THEN /\ probe.ret.status = "continue"
             /\ probe.ret.vm.stack = Append(step_under, f64_add(step_val1, step_val2))
        ELSE IF {step_val1.t, step_val2.t} \subseteq {"String", "Number"}
        THEN pushed_string(text_of(step_val1) \o text_of(step_val2))
        ELSE probe.ret.status = "Err"

\* a + 1 is the string a1 that was interned before, 1 + a a new string
C26_Witness ==
    /\ stepped(Op_Addition)
    /\ probe.arg.vm.stack = <<String(1), Number(1, 1)>>
    /\ probe.ret.vm.stack = <<String(4)>>
    /\ probe.ret.vm.h = SumsHeap

step_done == probe.ret.status = "continue"

\* the value on top of the stack before the step
step_top == probe.arg.vm.stack[Len(probe.arg.vm.stack)]

\* DefineGlobal stores the top value under the name and removes that one
\* value from the stack
defined_and_popped ==
    (stepped(Op_DefineGlobal) /\ step_done) =>
        /\ probe.ret.vm.stack =
               SubSeq(probe.arg.vm.stack, 1, Len(probe.arg.vm.stack) - 1)
        /\ probe.ret.vm.globals[step_name] = step_top

big_endian(bytes) == bytes[1] * 256 + bytes[2]

\* C29: after emit_jump returned offset and patch_jump(offset) ran without
\* an error, code[offset] and code[offset + 1] hold, big-endian,
\* code.len - offset - 2: the number of bytes emitted in between, so that
\* the byte after the operand plus the displacement is the end of the code,
\* where the next byte is emitted.  patch_jump changes no other byte and
\* not the length of the code, with or without an error.
C29_PatchedDisplacement ==
    (probe.fn = "emit_jump" /\ probe.done) =>
        /\ probe.ret.offset = probe.arg.before + 1
        /\ probe.ret.opcode = probe.arg.instruction
        /\ probe.ret.len = probe.ret.len_before
        /\ probe.ret.changed \subseteq {probe.ret.offset + 1, probe.ret.offset + 2}
        /\ probe.ret.diag = <<>> =>
              /\ big_endian(probe.ret.bytes) = probe.ret.len - probe.ret.offset - 2
              /\ big_endian(probe.ret.bytes) = probe.arg.between
              /\ probe.ret.offset + 2 + big_endian(probe.ret.bytes) = probe.ret.len

\* a jump over 4660 = 0x1234 bytes: the operand is 0x12, 0x34
C29_Witness ==
    /\ probe.fn = "emit_jump" /\ probe.done
    /\ probe.arg = [before |-> 3, between |-> 4660, instruction |-> Op_JumpIfFalse]
    /\ probe.ret.offset = 4
    /\ probe.ret.bytes = <<18, 52>>
    /\ probe.ret.changed = {5, 6}
    /\ probe.ret.len = 4666

\* C30: after emit_loop(loop_start) without an error, the offset just after
\* the two operand bytes of the Loop instruction, minus the displacement
\* they hold big-endian, is loop_start.
C30_LoopReturnsToStart ==
    (probe.fn = "emit_loop" /\ probe.done /\ probe.ret.diag = <<>>) =>
        probe.ret.len - big_endian(probe.ret.bytes) = probe.arg.loop_start

\* a loop back over 0x1234 bytes to loop_start 3
C30_Witness ==
    /\ probe.fn = "emit_loop" /\ probe.done
    /\ probe.arg.loop_start = 3
    /\ probe.ret.bytes = <<18, 52>>
    /\ probe.ret.len = 4663
    /\ probe.ret.diag = <<>>

\* the compilation of the probe went to the end of its text and returned
compiled_to_end == ~probe.ret.dead /\ probe.ret.current.ttype = "Eof"

RECURSIVE Tokens(_)
Tokens(s) ==
    Let(scan_token(s), LAMBDA r :
        IF r.tok.ttype = "Eof" THEN <<r.tok>> ELSE <<r.tok>> \o Tokens(r.s))

\* the keywords that begin a statement
StatementKeywords == {"Class", "Fun", "Var", "For", "If", "While", "Print", "Return"}

\* the token number i of the text: after the last one, Eof again
token_at(toks, i) == IF i > Len(toks) THEN toks[Len(toks)] ELSE toks[i]

\* synchronize stops with the token number j of toks as current
stops_at(toks, j) ==
    \/ token_at(toks, j).ttype = "Eof"
    \/ token_at(toks, j - 1).ttype = "SemiColon"
    \/ token_at(toks, j).ttype \in StatementKeywords

\* the parser has the token number j of toks as current
parser_at(cc, toks, j) ==
    /\ cc.current = token_at(toks, j)
    /\ cc.previous = token_at(toks, j - 1)
    /\ IF j >= Len(toks) THEN Tokens(cc.scanner) = <<toks[Len(toks)]>>
       ELSE Tokens(cc.scanner) = SubSeq(toks, j + 1, Len(toks))

\* C32: synchronize() discards tokens up to the first point where previous
\* is a semicolon, or current is one of class, fun, var, for, if, while,
\* print, return, or current is the end of input, and no further: none of
\* the tokens it discards is one of those keywords, and it changes nothing
\* of the code.  The print statement that follows an erroneous statement is
\* compiled.
C32_SynchronizeStopsAtStatement ==
    /\ (probe.fn = "synchronize" /\ probe.done) =>
          Let(Tokens(Scanner_new(probe.arg.text)), LAMBDA toks :
              \E j \in probe.arg.advanced + 1 .. Len(toks) + MaxAdvanced :
                  /\ stops_at(toks, j)
                  /\ \A i \in probe.arg.advanced + 1 .. j - 1 :
                        ~stops_at(toks, i) /\ token_at(toks, i).ttype \notin StatementKeywords
                  /\ parser_at(probe.ret, toks, j)
                  /\ probe.ret.chunk = Chunk_default
                  /\ ~probe.ret.dead)
    /\ (probe.fn = "run" /\ probe.arg = "print ; print 1;") =>
          probe.ret.chunk.code = <<Op_Print, Op_Constant, 0, Op_Print, Op_Return>>
    /\ (probe.fn = "run" /\ probe.arg = "1 2 3 print 4;") =>
          probe.ret.chunk.code = <<Op_Constant, 0, Op_Pop, Op_Constant, 1, Op_Print,
                                   Op_Return>>

\* after `a b`, synchronize discards c and stops before `for`
C32_Witness ==
    /\ probe.fn = "synchronize" /\ probe.done
    /\ probe.arg = [text |-> "a b c for (;;) d;", advanced |-> 2]
    /\ probe.ret.previous.lexeme = "c"
    /\ probe.ret.current.ttype = "For"

\* C33: in panic mode error_at changes nothing; out of panic mode it sets
\* had_error and panic_mode and emits one diagnostic, the message at the
\* line of the current token, and changes nothing else.  had_error is not
\* cleared afterwards: it is still set when a call on a parser that had an
\* error returns, and when a compilation that reported an error returns.
C33_ErrorAt ==
    /\ (probe.fn = "error_at" /\ probe.done) =>
          IF probe.arg.cc.panic_mode THEN probe.ret = probe.arg.cc
          ELSE /\ probe.ret.had_error
               /\ probe.ret.panic_mode
               /\ probe.ret.diag = Append(probe.arg.cc.diag,
                                          [line |-> probe.arg.cc.current.line,
                                           msg |-> probe.arg.msg])
               /\ [probe.ret EXCEPT !.had_error = FALSE, !.panic_mode = FALSE,
                                    !.diag = <<>>] = probe.arg.cc
    /\ (probe.fn \in {"declare_variable", "add_local"} /\ probe.done) =>
          (probe.arg.had_error => probe.ret.had_error)
    /\ (probe.fn \in {"compile", "synchronize"} /\ probe.done) =>
          (probe.ret.diag # <<>> => probe.ret.had_error)

\* an error at the end of input, out of panic mode
C33_Witness ==
    /\ probe.fn = "error_at" /\ probe.done
    /\ ~probe.arg.cc.panic_mode /\ ~probe.arg.cc.had_error
    /\ probe.arg.cc.current.ttype = "Eof"
    /\ probe.ret.had_error /\ probe.ret.panic_mode
    /\ probe.ret.diag = <<[line |-> 2, msg |-> "Expect variable name"]>>

\* C34: after write(byte, line) for any sequence of lines, increasing or
\* not, the code holds the bytes in the order written and get_line at the
\* offset of each byte is the line passed with it; lines holds one pair for
\* every byte whose line differs from that of the byte before it.
C34_LineOfEveryByte ==
    (probe.fn = "Chunk_write" /\ probe.done) =>
        /\ probe.ret.chunk.code = [i \in 1..Len(probe.arg) |-> i - 1]
        /\ \A i \in 1..Len(probe.arg) :
              probe.ret.line[i] = [some |-> TRUE, line |-> probe.arg[i]]
        /\ Len(probe.ret.chunk.lines) =
              Cardinality({i \in 1..Len(probe.arg) : i = 1 \/ probe.arg[i] # probe.arg[i - 1]})

\* lines 2, 2, 1, 2: the third byte is on an earlier line than the second
C34_Witness ==
    /\ probe.fn = "Chunk_write" /\ probe.done
    /\ probe.arg = <<2, 2, 1, 2>>
    /\ probe.ret.chunk.lines = <<<<0, 2>>, <<2, 1>>, <<3, 2>>>>
    /\ probe.ret.line[3] = [some |-> TRUE, line |-> 1]

\* a op b for the finite numbers a and b, as fractions
fraction_op(op, a, b) ==
    CASE op = Op_Subtract -> Number(a.num * b.den - b.num * a.den, a.den * b.den)
      [] op = Op_Multiply -> Number(a.num * b.num, a.den * b.den)
      [] op = Op_Divide -> Number(a.num * b.den, a.den * b.num)
      [] op = Op_Greater -> Bool(a.num * b.den > b.num * a.den)
      [] op = Op_Less -> Bool(a.num * b.den < b.num * a.den)

\* C35: Subtract, Multiply, Divide, Greater and Less on the stack ... a b
\* push a op b in place of a and b; when a or b is not a number the
\* instruction is a runtime error and pushes nothing: what is left of the
\* stack is a part of what was below b.
C35_BinaryOperandOrder ==
    \A op \in {Op_Subtract, Op_Multiply, Op_Divide, Op_Greater, Op_Less} :
        stepped(op) =>
            IF step_val1.t = "Number" /\ step_val2.t = "Number"
            THEN /\ probe.ret.status = "continue"
                 /\ probe.ret.vm.stack =
                       Append(step_under, fraction_op(op, step_val1, step_val2))
            ELSE /\ probe.ret.status = "Err"
                 /\ begins(probe.ret.vm.stack, Append(step_under, step_val1))

\* 1 - 1.5 is -0.5, not 0.5
C35_Witness ==
    /\ stepped(Op_Subtract)
    /\ probe.arg.vm.stack = <<Nil, Number(1, 1), Number(3, 2)>>
    /\ probe.ret.vm.stack = <<Nil, Number(-1, 2)>>

ran_instruction == probe.fn = "run" /\ probe.ret.ip > 0

\* C37: no instruction of a chunk that interpret installed reads the stack
\* out of range: on an empty stack the instruction ends the run with the
\* StackUnderflow runtime error, the thread does not panic.
C37_UnderflowIsRuntimeError == ran_instruction => probe.ret.status # "panic"

\* the scanner of the parser is at the end of input, and stays there: each
\* of the next two scan_token calls returns Eof
scanner_stays_at_end(cc) ==
    Let(scan_token(cc.scanner), LAMBDA r :
        r.tok.ttype = "Eof" /\ scan_token(r.s).tok.ttype = "Eof")

\* C38: compile() comes to an end on every text.  A call of declaraction()
\* with a current token that is not the end of input returns with a later
\* token as current; synchronize() returns at the end of input at the
\* latest; once the parser holds Eof the scanner returns Eof again; and
\* compile() returns with Eof as the current token.
C38_CompileTerminates ==
    /\ (probe.fn = "declaraction" /\ probe.done) =>
          Let(Tokens(Scanner_new(probe.arg.text)), LAMBDA toks :
              \/ probe.ret.dead
              \/ \E j \in probe.arg.advanced + 2 .. Len(toks) :
                    parser_at(probe.ret, toks, j))
    /\ (probe.fn = "synchronize" /\ probe.done) =>
          Let(Tokens(Scanner_new(probe.arg.text)), LAMBDA toks :
              \E j \in probe.arg.advanced + 1 .. Len(toks) + MaxAdvanced :
                  parser_at(probe.ret, toks, j))
    /\ (probe.fn \in {"declaraction", "synchronize", "compile"} /\ probe.done
           /\ probe.ret.current.ttype = "Eof") => scanner_stays_at_end(probe.ret)
    /\ (probe.fn = "compile" /\ probe.done /\ ~probe.ret.dead) =>
          /\ probe.ret.current.ttype = "Eof"
          /\ scanner_stays_at_end(probe.ret)

\* the compilation of two blocks left open returns at the end of input
C38_Witness ==
    /\ probe.fn = "compile" /\ probe.done
    /\ probe.arg = [text |-> "{ { 1", constants |-> 0]
    /\ probe.ret.current.ttype = "Eof"
    /\ probe.ret.had_error
    /\ ~probe.ret.dead

\* n Pop instructions
RECURSIVE Pops(_)
Pops(n) == IF n = 0 THEN <<>> ELSE <<Op_Pop>> \o Pops(n - 1)

\* C39: begin_scope and end_scope are balanced.  end_scope leaves
\* scope_depth one lower and not below 0, removes from the end of locals
\* exactly the locals deeper than the scope it returns to, and emits one Pop
\* for each of them and nothing else; a declaration that began outside
\* every scope returns outside every scope with no local left, and so does
\* compile(), with or without syntax errors and unclosed blocks.
C39_ScopesBalanced ==
    /\ (probe.fn = "end_scope" /\ probe.done) =>
          /\ ~probe.ret.dead
          /\ probe.ret.scope_depth = probe.arg.scope_depth - 1
          /\ probe.ret.scope_depth >= 0
          /\ \A i \in DOMAIN probe.ret.locals :
                probe.ret.locals[i].depth <= probe.ret.scope_depth
          /\ begins(probe.ret.locals, probe.arg.locals)
          /\ \A i \in Len(probe.ret.locals) + 1 .. Len(probe.arg.locals) :
                probe.arg.locals[i].depth > probe.ret.scope_depth
          /\ probe.ret.chunk.code =
                probe.arg.chunk.code \o Pops(Len(probe.arg.locals) - Len(probe.ret.locals))
    /\ (probe.fn \in {"declaraction", "compile"} /\ probe.done /\ ~probe.ret.dead) =>
          /\ probe.ret.scope_depth = 0
          /\ probe.ret.locals = <<>>

\* the unclosed blocks of `{ var a; { var b; ` are left at the end of input
\* and their locals are popped
C39_Witness ==
    /\ probe.fn = "compile" /\ probe.done
    /\ probe.arg = [text |-> "{ var a; { var b; ", constants |-> 0]
    /\ probe.ret.had_error
    /\ probe.ret.scope_depth = 0
    /\ probe.ret.locals = <<>>
    /\ probe.ret.chunk.code = <<Op_Nil, Op_Nil, Op_Pop, Op_Pop, Op_Return>>

\* the instructions whose operand byte is an index into the constant pool
ConstantOps == {Op_Constant, Op_GetGlobal, Op_SetGlobal, Op_DefineGlobal}

\* the number of operand bytes that follow the opcode
operand_bytes(op) ==
    IF op \in ConstantOps \cup {Op_GetLocal, Op_SetLocal} THEN 1
    ELSE IF op \in {Op_Jump, Op_JumpIfFalse, Op_Loop} THEN 2
    ELSE 0

\* from the instruction at code[offset] on, every operand that names a
\* constant is below constants.len()
RECURSIVE constant_operands_valid(_, _)
constant_operands_valid(chunk, offset) ==
    IF offset >= Len(chunk.code) THEN TRUE
    ELSE /\ chunk.code[offset + 1] \in ConstantOps =>
              /\ offset + 1 < Len(chunk.code)
              /\ chunk.code[offset + 2] < Len(chunk.constants)
         /\ constant_operands_valid(chunk,
                                    offset + 1 + operand_bytes(chunk.code[offset + 1]))

\* C40: in every chunk compile() returns with, and in every chunk run() is
\* entered on, the operand of each Constant, GetGlobal, SetGlobal and
\* DefineGlobal instruction is an index below the length of the chunk's
\* constant pool, also when the pool was full and TooManyConstants was
\* reported.
C40_ConstantOperandsValid ==
    /\ (probe.fn = "compile" /\ probe.done /\ ~probe.ret.dead) =>
          constant_operands_valid(probe.ret.chunk, 0)
    /\ (probe.fn = "run" /\ probe.ret.status # "panic") =>
          constant_operands_valid(probe.ret.chunk, 0)

\* the pool of 254 constants takes the name a and the 1; the 2 is refused
C40_Witness ==
    /\ probe.fn = "compile" /\ probe.done
    /\ probe.arg = [text |-> "var a = 1; print 2;", constants |-> 254]
    /\ probe.ret.had_error
    /\ Len(probe.ret.chunk.constants) = U8_MAX + 1
    /\ probe.ret.chunk.code =
          <<Op_Constant, 255, Op_DefineGlobal, 254, Op_Print, Op_Return>>

====
